---------------------------- MODULE Spec2Model ----------------------------
(***************************************************************************)
(* Protocol client of the Neptun N4106 leak-protection controller          *)
(* (custom_components/neptun_leak_protection/protocol.py).                 *)
(*                                                                         *)
(* The model follows the class NeptunDevice as Python binds it: the class  *)
(* body defines set_valve_state, set_dry_mode and set_auto_close twice     *)
(* (lines 341-418 and again lines 491-558); the later definitions replace  *)
(* the earlier ones, so the methods a caller reaches are the literal-frame *)
(* ones of lines 491-558.                                                  *)
(*                                                                         *)
(* Coroutines are modelled as tasks that take one step per await point:    *)
(* the code between two awaits runs without interruption on the asyncio    *)
(* event loop and is one atomic step here.                                 *)
(***************************************************************************)
EXTENDS Integers, Sequences, FiniteSets, TLC

(***************************************************************************)
(* Bounds of the model.                                                    *)
(***************************************************************************)
NumTasks == 2      \* concurrently running callers of one NeptunDevice
MaxNow == 1        \* the clock runs 0..MaxNow
NumSnapshots == 2  \* controller snapshots (of SnapshotList) that state blobs carry
MaxRetries == 3    \* largest max_retries passed in a direct call of send_command_with_retries
MaxAge == 601      \* is_online is asked up to MaxAge seconds after time 0
MaxPayload == 2    \* create_command gets every payload over PayloadBytes up to this length
LongPayload == 300 \* and one payload of this length
MaxResponse == 4   \* the classification gets every response over ResponseBytes up to this length
MaxExtra == 1      \* the decoder gets responses of MIN_STATE_LENGTH up to MIN_STATE_LENGTH + MaxExtra bytes

Tasks == 1..NumTasks

(***************************************************************************)
(* Program constants (const.py, protocol.py).                              *)
(***************************************************************************)
DEFAULT_RETRY_ATTEMPTS == 5
PACKET_SYSTEM_STATE == 82          \* 0x52
PACKET_SET_SYSTEM_STATE == 87      \* 0x57
PACKET_SET_COUNTER_VALUE == 88     \* 0x58
\* const.py under src/ does not set PACKET_DEVICE_INFO although protocol.py
\* imports it (line 21); 0x49 is assumed, the value plays no role below.
PACKET_DEVICE_INFO == 73
MIN_STATE_LENGTH == 112
ONLINE_SECONDS == 600              \* line 478

(***************************************************************************)
(* Python values.  None and a missing optional are the empty tuple, a      *)
(* present optional x is <<x>>.  bytes are sequences of 0..255; data[i] of *)
(* Python (0-based) is At(data, i).                                        *)
(***************************************************************************)
None == << >>
Some(x) == <<x>>
At(data, i) == data[i + 1]

\* The transport's "no bytes" outcome of _send_command (None), kept apart
\* from the empty bytes object b'' that reader.read returns at end of stream.
NoResponse == <<-1>>

\* An attempt that ends in an exception instead of a value.
Raised == <<-2>>

\* Python truthiness of an Optional[bytes]: None and b'' are false.
Truthy(response) == response # NoResponse /\ Len(response) > 0

\* bool -> the 0/1 payload byte
BoolByte(b) == IF b THEN 1 ELSE 0

\* dict.get(key, default) and dict.update(new) on dicts held as functions.
EmptyDict == [k \in {} |-> 0]
Get(d, k, default) == IF k \in DOMAIN d THEN d[k] ELSE default
Update(d, new) ==
    [k \in (DOMAIN d) \cup (DOMAIN new) |-> IF k \in DOMAIN new THEN new[k] ELSE d[k]]

\* bytes.startswith on the hex rendering: every prefix used has an even
\* number of hex digits, so it is a prefix of whole bytes.
StartsWith(data, prefix) ==
    /\ Len(data) >= Len(prefix)
    /\ SubSeq(data, 1, Len(prefix)) = prefix

\* bytes.fromhex on a string given as its hex digits.
fromhex(digits) ==
    [i \in 1..(Len(digits) \div 2) |-> 16 * digits[2 * i - 1] + digits[2 * i]]

(***************************************************************************)
(* crc16, create_command, create_control_command, create_counter_command   *)
(***************************************************************************)
\* bit k of x
Bit(x, k) == (x \div (2 ^ k)) % 2

\* a ^ b on values of up to 17 bits
Xor == [a \in Nat, b \in Nat |->
          LET x(k) == ((Bit(a, k) + Bit(b, k)) % 2) * (2 ^ k)
          IN  x(0) + x(1) + x(2) + x(3) + x(4) + x(5) + x(6) + x(7) + x(8)
                + x(9) + x(10) + x(11) + x(12) + x(13) + x(14) + x(15) + x(16)]

\* one pass of `for _ in range(8)`, lines 45-49
CrcShift == [c \in Nat |->
               IF Bit(c, 15) = 1 THEN Xor[c * 2, 4129] % 65536
                                 ELSE (c * 2) % 65536]

\* lines 42-49 for one byte_val
CrcByte == [c \in Nat, byte_val \in Nat |->
              CrcShift[CrcShift[CrcShift[CrcShift[CrcShift[CrcShift[CrcShift[CrcShift[
                  Xor[c, byte_val * 256] % 65536]]]]]]]]]

crc16(data) ==
    LET \* crc16ret after the bytes data[lo..hi], taken in order, starting
        \* from c (the range is halved so that a long input needs no deep
        \* recursion)
        after[lo \in Nat, hi \in Nat, c \in Nat] ==
            IF lo > hi THEN c
            ELSE IF lo = hi THEN CrcByte[c, data[lo]]
            ELSE after[((lo + hi) \div 2) + 1, hi, after[lo, (lo + hi) \div 2, c]]
        crc16ret == after[1, Len(data), 65535]
    IN  <<(crc16ret \div 256) % 256, crc16ret % 256>>

\* Variant of create_command with the length little-endian
\* (`to_bytes(2, 'little')` in line 63).
create_command_little_endian(command_code, data_payload) ==
    LET length == Len(data_payload)
        command_bytes == <<2, 84, 81, command_code>>
                            \o <<length % 256, (length \div 256) % 256>>
                            \o data_payload
    IN  command_bytes \o crc16(command_bytes)

create_command(command_code, data_payload) ==
    LET length == Len(data_payload)
        command_bytes == <<2, 84, 81, command_code>>
                            \o <<(length \div 256) % 256, length % 256>>
                            \o data_payload
    IN  command_bytes \o crc16(command_bytes)

\* Variant of create_control_command that writes flag_cl_valve to payload
\* byte 4 and flag_dry to payload byte 5 (the indices of lines 88 and 90
\* exchanged).
create_control_command_swapped(valve_state_open, flag_dry, flag_cl_valve, line_in_config) ==
    create_command(PACKET_SET_SYSTEM_STATE,
                   <<83, 0, 4,
                     IF valve_state_open THEN 1 ELSE 0,
                     IF flag_cl_valve THEN 1 ELSE 0,
                     IF flag_dry THEN 1 ELSE 0,
                     line_in_config>>)

create_control_command(valve_state_open, flag_dry, flag_cl_valve, line_in_config) ==
    create_command(PACKET_SET_SYSTEM_STATE,
                   <<83, 0, 4,
                     IF valve_state_open THEN 1 ELSE 0,
                     IF flag_dry THEN 1 ELSE 0,
                     IF flag_cl_valve THEN 1 ELSE 0,
                     line_in_config>>)

\* int.to_bytes(4, 'little') for 0 <= value < 2^32
to_bytes_little4(value) ==
    <<value % 256, (value \div 256) % 256, (value \div 65536) % 256,
      (value \div 16777216) % 256>>

create_counter_command(line_number, counter_value) ==
    create_command(PACKET_SET_COUNTER_VALUE,
                   <<83, 0, 4, line_number, 0, 0, 0>> \o to_bytes_little4(counter_value))

\* 1 << n
RECURSIVE ShiftLeft1(_)
ShiftLeft1(n) == IF n = 0 THEN 1 ELSE 2 * ShiftLeft1(n - 1)

(***************************************************************************)
(* The literal frames of the setters bound on the class (lines 491-558),   *)
(* given as the hex digits of the string literals.                         *)
(***************************************************************************)
HexValveOpen ==      \* "0254515700075300040100000089A5"
    <<0,2, 5,4, 5,1, 5,7, 0,0, 0,7, 5,3, 0,0, 0,4, 0,1, 0,0, 0,0, 0,0, 8,9, 10,5>>
HexAllOff ==         \* "0254515700075300040000000032B9"
    <<0,2, 5,4, 5,1, 5,7, 0,0, 0,7, 5,3, 0,0, 0,4, 0,0, 0,0, 0,0, 0,0, 3,2, 11,9>>
HexDryOn ==          \* "02545157000753000400010000EEE3"
    <<0,2, 5,4, 5,1, 5,7, 0,0, 0,7, 5,3, 0,0, 0,4, 0,0, 0,1, 0,0, 0,0, 14,14, 14,3>>
HexAutoCloseOn ==    \* "02545157000753000400000100EAA0"
    <<0,2, 5,4, 5,1, 5,7, 0,0, 0,7, 5,3, 0,0, 0,4, 0,0, 0,0, 0,1, 0,0, 14,10, 10,0>>

(***************************************************************************)
(* What one transport attempt can yield.  A state blob is a response of    *)
(* MIN_STATE_LENGTH bytes, 02 54 41 52 first, that carries a snapshot of   *)
(* the controller at the offsets _parse_system_state reads and 0 elsewhere.*)
(***************************************************************************)
Snapshot(valve, mode, auto, states, batteries, flags, counts) ==
    [valve |-> valve, mode |-> mode, auto |-> auto, states |-> states,
     batteries |-> batteries, flags |-> flags, counts |-> counts]

SnapshotList ==
    << Snapshot(1, 15, 0, <<3, 2, 7>>, <<100, 214, 9>>, <<1, 1, 0>>, <<2, 0, 0>>),
       Snapshot(0, 0,  8, <<0, 3, 3>>, <<0, 100, 214>>, <<0, 1, 1>>, <<0, 0, 2>>),
       Snapshot(1, 15, 8, <<2, 0, 3>>, <<214, 0, 100>>, <<1, 0, 1>>, <<1, 1, 1>>),
       Snapshot(0, 0,  0, <<3, 3, 0>>, <<100, 214, 0>>, <<1, 0, 0>>, <<0, 2, 0>>),
       Snapshot(2, 1,  1, <<1, 4, 255>>, <<128, 127, 255>>, <<0, 0, 0>>, <<3, 3, 3>>) >>

\* the snapshots the controller reports in this model
Snapshots == { SnapshotList[i] : i \in 1..NumSnapshots }

StateBlob(s, length) ==
    [i \in 1..length |->
        CASE i - 1 = 0  -> 2
          [] i - 1 = 1  -> 84
          [] i - 1 = 2  -> 65
          [] i - 1 = 3  -> PACKET_SYSTEM_STATE
          [] i - 1 = 41 -> s.valve
          [] i - 1 = 46 -> s.mode
          [] i - 1 = 47 -> s.auto
          [] i - 1 \in {51, 55, 59} -> s.states[((i - 1 - 51) \div 4) + 1]
          [] i - 1 \in {52, 56, 60} -> ((i - 1 - 52) \div 4) + 1
          [] i - 1 \in {53, 57, 61} -> s.batteries[((i - 1 - 53) \div 4) + 1]
          [] i - 1 \in {54, 58, 62} -> s.flags[((i - 1 - 54) \div 4) + 1]
          [] i - 1 \in {66, 67, 68} -> s.counts[i - 1 - 65]
          [] OTHER -> 0]

FullResponses == { StateBlob(s, MIN_STATE_LENGTH) : s \in Snapshots }

\* 02 54 41 .. but shorter than MIN_STATE_LENGTH
ShortResponses ==
    { StateBlob(SnapshotList[3], MIN_STATE_LENGTH - 1) }

UnknownCommandResponse == <<2, 84, 65, 251, 0, 0>>     \* 02 54 41 FB ..
CrcErrorResponse       == <<2, 84, 65, 254, 0, 0>>     \* 02 54 41 FE ..
MalformedResponses     == { <<2, 84>>, <<2, 84, 81, 82, 0, 0>> }

\* b'' (end of stream) and None (timeout, network error)
EmptyOutcomes == { << >>, NoResponse }

Outcomes ==
    EmptyOutcomes \cup MalformedResponses
        \cup {UnknownCommandResponse, CrcErrorResponse}
        \cup ShortResponses \cup FullResponses

(***************************************************************************)
(* The state decoder: _parse_system_state, _parse_sensor_data,             *)
(* _parse_counter_data.  A cache is the four attributes the decoder        *)
(* writes.                                                                 *)
(***************************************************************************)
Cache(ss, sens, cnt, lu) ==
    [system_state |-> ss, sensors |-> sens, counters |-> cnt, last_update |-> lu]

\* Variant of the dict literal that reads the batteries one byte early
\* (data[52], data[56], data[60] in lines 216-218).
ParsedFields_battery_one_early(data) ==
    [valve_open |-> At(data, 41) = 1,
     dry_mode   |-> At(data, 46) = 15,
     auto_close |-> At(data, 47) = 8,
     sensor_1_state |-> At(data, 51),
     sensor_2_state |-> At(data, 55),
     sensor_3_state |-> At(data, 59),
     sensor_1_battery |-> At(data, 52),
     sensor_2_battery |-> At(data, 56),
     sensor_3_battery |-> At(data, 60),
     sensor_1_signal |-> At(data, 54),
     sensor_2_signal |-> At(data, 58),
     sensor_3_signal |-> At(data, 62),
     sensor_1_index |-> At(data, 52),
     sensor_2_index |-> At(data, 56),
     sensor_3_index |-> At(data, 60),
     sensor_1_flag |-> At(data, 54),
     sensor_2_flag |-> At(data, 58),
     sensor_3_flag |-> At(data, 62),
     counter_1_data |-> At(data, 66),
     counter_2_data |-> At(data, 67),
     counter_3_data |-> At(data, 68)]

\* the dict literal of lines 200-244 (later duplicates of a key win)
ParsedFields(data) ==
    [valve_open |-> At(data, 41) = 1,
     dry_mode   |-> At(data, 46) = 15,
     auto_close |-> At(data, 47) = 8,
     sensor_1_state |-> At(data, 51),
     sensor_2_state |-> At(data, 55),
     sensor_3_state |-> At(data, 59),
     sensor_1_battery |-> At(data, 53),
     sensor_2_battery |-> At(data, 57),
     sensor_3_battery |-> At(data, 61),
     sensor_1_signal |-> At(data, 54),
     sensor_2_signal |-> At(data, 58),
     sensor_3_signal |-> At(data, 62),
     sensor_1_index |-> At(data, 52),
     sensor_2_index |-> At(data, 56),
     sensor_3_index |-> At(data, 60),
     sensor_1_flag |-> At(data, 54),
     sensor_2_flag |-> At(data, 58),
     sensor_3_flag |-> At(data, 62),
     counter_1_data |-> At(data, 66),
     counter_2_data |-> At(data, 67),
     counter_3_data |-> At(data, 68)]

\* f"sensor_{i}", f"sensor_{i}_state", ... , f"counter_{i}_data"
SensorKey(i)        == <<"sensor_1", "sensor_2", "sensor_3">>[i]
SensorStateKey(i)   == <<"sensor_1_state", "sensor_2_state", "sensor_3_state">>[i]
SensorBatteryKey(i) == <<"sensor_1_battery", "sensor_2_battery", "sensor_3_battery">>[i]
SensorFlagKey(i)    == <<"sensor_1_flag", "sensor_2_flag", "sensor_3_flag">>[i]
CounterKey(i)       == <<"counter_1", "counter_2", "counter_3">>[i]
CounterDataKey(i)   == <<"counter_1_data", "counter_2_data", "counter_3_data">>[i]

\* Variant of SensorEntry that takes the flag from the battery key
\* (line 260 reading f"sensor_{i}_battery").
SensorEntry_flag_from_battery(ss, i) ==
    LET state   == Get(ss, SensorStateKey(i), 0)
        battery == Get(ss, SensorBatteryKey(i), 0)
    IN  [state |-> CASE state = 0 -> "disconnected"
                     [] state = 2 -> "triggered"
                     [] state = 3 -> "normal"
                     [] OTHER     -> "unknown",
         battery_level |-> CASE state = 0 -> 0
                             [] state = 2 -> 2
                             [] state = 3 -> 3
                             [] OTHER     -> 0,
         battery_percent |-> battery,
         flag |-> battery,
         index |-> i,
         wireless |-> TRUE]

SensorEntry(ss, i) ==
    LET state   == Get(ss, SensorStateKey(i), 0)
        battery == Get(ss, SensorBatteryKey(i), 0)
        flag    == Get(ss, SensorFlagKey(i), 0)
    IN  [state |-> CASE state = 0 -> "disconnected"
                     [] state = 2 -> "triggered"
                     [] state = 3 -> "normal"
                     [] OTHER     -> "unknown",
         battery_level |-> CASE state = 0 -> 0
                             [] state = 2 -> 2
                             [] state = 3 -> 3
                             [] OTHER     -> 0,
         battery_percent |-> battery,
         flag |-> flag,
         index |-> i,
         wireless |-> TRUE]

_parse_sensor_data(ss, sens) ==
    Update(sens, [k \in {SensorKey(i) : i \in 1..3} |->
                    SensorEntry(ss, CHOOSE i \in 1..3 : SensorKey(i) = k)])

_parse_counter_data(ss, cnt) ==
    Update(cnt, [k \in {CounterKey(i) : i \in 1..3} |->
                    LET i == CHOOSE j \in 1..3 : CounterKey(j) = k
                    IN  [data |-> Get(ss, CounterDataKey(i), 0),
                         line_number |-> i,
                         wire |-> TRUE]])

\* Variant of _parse_system_state without the call of _parse_sensor_data
\* (line 248).
_parse_system_state_skips_sensors(c, data, t) ==
    IF Len(data) < MIN_STATE_LENGTH
    THEN c
    ELSE LET ss == Update(c.system_state, ParsedFields(data))
         IN  Cache(ss, c.sensors, _parse_counter_data(ss, c.counters), Some(t))

\* Variant of _parse_system_state that stamps last_update before the length
\* check of line 195.
_parse_system_state_stamps_short(c, data, t) ==
    IF Len(data) < MIN_STATE_LENGTH
    THEN [c EXCEPT !.last_update = Some(t)]
    ELSE LET ss == Update(c.system_state, ParsedFields(data))
         IN  Cache(ss,
                   _parse_sensor_data(ss, c.sensors),
                   _parse_counter_data(ss, c.counters),
                   Some(t))

\* the cache after _parse_system_state(data) run at time t on cache c
_parse_system_state(c, data, t) ==
    IF Len(data) < MIN_STATE_LENGTH
    THEN c
    ELSE LET ss == Update(c.system_state, ParsedFields(data))
         IN  Cache(ss,
                   _parse_sensor_data(ss, c.sensors),
                   _parse_counter_data(ss, c.counters),
                   Some(t))

(***************************************************************************)
(* State.                                                                  *)
(*   locked        asyncio.Lock._locked of self._lock                      *)
(*   system_state, sensors, counters, last_update, device_info             *)
(*                 the attributes of the NeptunDevice                      *)
(*   now           the clock datetime.now() reads                          *)
(* and per task                                                            *)
(*   stack         the coroutines the task is in, outermost first          *)
(*   pc            where the innermost coroutine is suspended:             *)
(*                 "idle"    no operation                                  *)
(*                 "acquire" at `async with self._lock`                    *)
(*                 "io"      inside `await self._send_command(..)`         *)
(*                 "sleep"   at `await asyncio.sleep(retry_delay)`         *)
(*                 "done"    the outermost coroutine has returned          *)
(*   arg           the arguments of the outermost call                     *)
(*   loop          locals of send_command_with_retries                     *)
(*   success       local of update_all                                     *)
(*   result        the value the outermost call returned                   *)
(* and, recording what happened,                                           *)
(*   answer        the response the operation's last get_system_state got  *)
(*                 from send_command_with_retries                          *)
(*   hist          oplog: command codes of the send_command_with_retries   *)
(*                 calls of the operation; attempts, sleeps: transport     *)
(*                 attempts finished and retry sleeps finished in the      *)
(*                 send_command_with_retries call that is running (or that *)
(*                 a direct call of it has just finished); yields: what    *)
(*                 each of these attempts yielded, kept for a direct call; *)
(*                 frames: the frames written to a connection, open: the   *)
(*                 connections opened and still open, peak: the most of    *)
(*                 them open at one time, all three kept for a direct call *)
(*                 whose attempts are followed await by await              *)
(*   call          the last call made on its own of _send_command or of a  *)
(*                 function that awaits nothing (create_command,           *)
(*                 is_online, ..): its name, its arguments and what it     *)
(*                 returned                                                *)
(***************************************************************************)
VARIABLES locked, system_state, sensors, counters, last_update, device_info, now,
          stack, pc, arg, loop, success, result, answer, hist, call

vars == <<locked, system_state, sensors, counters, last_update, device_info, now,
          stack, pc, arg, loop, success, result, answer, hist, call>>

LockFns == {"get_device_info", "get_system_state", "set_line_mode", "set_counter_value"}
LiteralSetters == {"set_valve_state", "set_dry_mode", "set_auto_close"}
Operations == LockFns \cup LiteralSetters \cup {"update_all"}

\* line_number and value arguments: in range, and out of range (the
\* controller has lines 1..8, a counter is an unsigned 32-bit number)
Lines == {1, 9}
CounterValues == {258, -1}

NoArg == [flag |-> FALSE, line |-> 0, value |-> 0]
Args(fn) ==
    CASE fn \in LiteralSetters    -> { [NoArg EXCEPT !.flag = f] : f \in BOOLEAN }
      [] fn = "set_line_mode"     -> { [NoArg EXCEPT !.flag = f, !.line = l] :
                                          f \in BOOLEAN, l \in Lines }
      [] fn = "set_counter_value" -> { [NoArg EXCEPT !.line = l, !.value = v] :
                                          l \in Lines, v \in CounterValues }
      [] OTHER                    -> { NoArg }

NoLoop == [command |-> << >>, max_retries |-> 0, attempt |-> 0]
NoHist == [oplog |-> << >>, attempts |-> 0, sleeps |-> 0, yields |-> << >>,
           frames |-> << >>, open |-> 0, peak |-> 0]
NoCall == [fn |-> "", args |-> << >>, out |-> << >>]

Top(stk) == stk[Len(stk)]
Pop(stk) == SubSeq(stk, 1, Len(stk) - 1)

\* Everything a step of task t can read or write, as one record.
World(t) ==
    [locked |-> locked,
     cache |-> Cache(system_state, sensors, counters, last_update),
     device_info |-> device_info, now |-> now,
     stack |-> stack[t], pc |-> pc[t], arg |-> arg[t], loop |-> loop[t],
     success |-> success[t], result |-> result[t], answer |-> answer[t], hist |-> hist[t],
     call |-> call]

Apply(t, w) ==
    /\ locked' = w.locked
    /\ system_state' = w.cache.system_state
    /\ sensors' = w.cache.sensors
    /\ counters' = w.cache.counters
    /\ last_update' = w.cache.last_update
    /\ device_info' = w.device_info
    /\ stack' = [stack EXCEPT ![t] = w.stack]
    /\ pc' = [pc EXCEPT ![t] = w.pc]
    /\ arg' = [arg EXCEPT ![t] = w.arg]
    /\ loop' = [loop EXCEPT ![t] = w.loop]
    /\ success' = [success EXCEPT ![t] = w.success]
    /\ result' = [result EXCEPT ![t] = w.result]
    /\ answer' = [answer EXCEPT ![t] = w.answer]
    /\ hist' = [hist EXCEPT ![t] = w.hist]
    /\ call' = w.call

(***************************************************************************)
(* send_command_with_retries (lines 124-151): entering the loop with       *)
(* max_retries >= 1 runs to the first await inside _send_command.          *)
(***************************************************************************)
StartLoop(w, command, max_retries) ==
    [w EXCEPT !.loop = [command |-> command, max_retries |-> max_retries, attempt |-> 0],
              !.pc = "io",
              !.hist = [w.hist EXCEPT !.oplog = Append(@, At(command, 3)),
                                      !.attempts = 0, !.sleeps = 0,
                                      !.yields = << >>]]

\* Variant of the literal frames in which the frame of set_auto_close(True)
\* (line 543) has the dry_mode byte set as well.
LiteralCommand_auto_close_with_dry(fn, flag) ==
    CASE fn = "set_valve_state" -> IF flag THEN fromhex(HexValveOpen) ELSE fromhex(HexAllOff)
      [] fn = "set_dry_mode"    -> IF flag THEN fromhex(HexDryOn) ELSE fromhex(HexAllOff)
      [] fn = "set_auto_close"  -> IF flag
                                   THEN [fromhex(HexAutoCloseOn) EXCEPT ![11] = 1]
                                   ELSE fromhex(HexAllOff)

\* The literal frame each setter of lines 491-558 sends.
LiteralCommand(fn, flag) ==
    CASE fn = "set_valve_state" -> IF flag THEN fromhex(HexValveOpen) ELSE fromhex(HexAllOff)
      [] fn = "set_dry_mode"    -> IF flag THEN fromhex(HexDryOn) ELSE fromhex(HexAllOff)
      [] fn = "set_auto_close"  -> IF flag THEN fromhex(HexAutoCloseOn) ELSE fromhex(HexAllOff)

(***************************************************************************)
(* A coroutine returns val: the caller resumes and runs to its next await  *)
(* or to its own return.                                                   *)
(***************************************************************************)
\* Variant of update_all that returns what get_device_info returned
\* (`return await self.get_device_info()` for lines 465-466).
update_all_resume_returns_info(w, val) ==
    LET callee == Top(w.stack)
        rest   == Pop(w.stack)
    IN  IF callee = "get_system_state"
        THEN IF val
             THEN [w EXCEPT !.success = val,
                            !.stack = Append(rest, "get_device_info"),
                            !.pc = "acquire"]
             ELSE [w EXCEPT !.success = val, !.stack = rest,
                            !.pc = "done", !.result = Some(val)]
        ELSE [w EXCEPT !.stack = rest, !.pc = "done", !.result = Some(val)]

\* update_all, lines 463-466, resumed with the value val of the coroutine it
\* awaited
update_all_resume(w, val) ==
    LET callee == Top(w.stack)
        rest   == Pop(w.stack)
    IN  IF callee = "get_system_state"
        THEN IF val
             THEN [w EXCEPT !.success = val,
                            !.stack = Append(rest, "get_device_info"),
                            !.pc = "acquire"]
             ELSE [w EXCEPT !.success = val, !.stack = rest,
                            !.pc = "done", !.result = Some(val)]
        ELSE [w EXCEPT !.stack = rest, !.pc = "done",
                       !.result = Some(w.success)]

Raise(w) ==
    \* An exception leaves set_line_mode / set_counter_value: neither has a
    \* try, `async with self._lock` releases the lock on the way out, and the
    \* caller of the operation gets the exception.
    [w EXCEPT !.locked = FALSE, !.stack = <<w.stack[1]>>, !.pc = "done",
              !.result = Some(Raised)]

Return(w, val) ==
    LET callee == Top(w.stack)
        rest   == Pop(w.stack)
    IN  IF rest = << >>
        THEN [w EXCEPT !.pc = "done", !.result = Some(val)]
        ELSE CASE Top(rest) = "update_all" -> update_all_resume(w, val)
               [] Top(rest) = "set_line_mode" ->
                    \* lines 426-436, after `await self.get_system_state()`
                    LET valve_open  == Get(w.cache.system_state, "valve_open", TRUE)
                        dry_mode    == Get(w.cache.system_state, "dry_mode", FALSE)
                        auto_close  == Get(w.cache.system_state, "auto_close", FALSE)
                        \* set_counter_value passes counter_mode = True (line 448)
                        counter_mode == IF Len(rest) > 1 THEN TRUE ELSE w.arg.flag
                        \* line 433: ValueError (negative shift count);
                        \* line 92: ValueError (byte must be in range(0, 256))
                        raises == counter_mode /\
                                    (w.arg.line < 1 \/ ShiftLeft1(w.arg.line - 1) > 255)
                        line_config == IF counter_mode THEN ShiftLeft1(w.arg.line - 1) ELSE 0
                    IN  IF raises
                        THEN Raise(w)
                        ELSE StartLoop([w EXCEPT !.stack = rest],
                                       create_control_command(valve_open, dry_mode,
                                                              auto_close, line_config),
                                       DEFAULT_RETRY_ATTEMPTS)
               [] Top(rest) = "set_counter_value" ->
                    \* lines 451-452, after `await self.set_line_mode(line_number, True)`;
                    \* line 100: ValueError (byte must be in range(0, 256)),
                    \* line 101: OverflowError (can't convert negative int to
                    \* unsigned; every other value used here is below 2^32)
                    IF w.arg.line \notin 0..255 \/ w.arg.value < 0
                    THEN Raise(w)
                    ELSE StartLoop([w EXCEPT !.stack = rest],
                                   create_counter_command(w.arg.line, w.arg.value),
                                   DEFAULT_RETRY_ATTEMPTS)

(***************************************************************************)
(* The code that follows `response, attempts = await                       *)
(* self.send_command_with_retries(..)` in each coroutine.                  *)
(***************************************************************************)
\* Variant of get_system_state without the CRC/format error branch of lines
\* 331-333.
get_system_state_tail_no_crc_branch(c, response, t) ==
    IF ~Truthy(response) THEN [cache |-> c, val |-> FALSE]
    ELSE IF StartsWith(response, <<2, 84, 65, 251>>) THEN [cache |-> c, val |-> FALSE]
    ELSE IF ~StartsWith(response, <<2, 84, 65>>) THEN [cache |-> c, val |-> FALSE]
    ELSE [cache |-> _parse_system_state(c, response, t), val |-> TRUE]

\* get_system_state, lines 322-339: the cache after it and the value returned
get_system_state_tail(c, response, t) ==
    IF ~Truthy(response) THEN [cache |-> c, val |-> FALSE]
    ELSE IF StartsWith(response, <<2, 84, 65, 251>>) THEN [cache |-> c, val |-> FALSE]
    ELSE IF StartsWith(response, <<2, 84, 65, 254>>) THEN [cache |-> c, val |-> FALSE]
    ELSE IF ~StartsWith(response, <<2, 84, 65>>) THEN [cache |-> c, val |-> FALSE]
    ELSE [cache |-> _parse_system_state(c, response, t), val |-> TRUE]

\* get_device_info, lines 303-314
get_device_info_tail(info, response, t) ==
    IF ~Truthy(response) THEN [device_info |-> info, val |-> FALSE]
    ELSE [device_info |-> Update(info, [host |-> "host", port |-> 6350, last_update |-> t]),
          val |-> TRUE]

\* the literal setters, lines 504-509, 527-532, 550-555; set_line_mode,
\* lines 438-442; set_counter_value, lines 454-458
setter_tail(response) == IF Truthy(response) THEN TRUE ELSE FALSE

\* `async with self._lock` is left: Lock.release()
Release(w) == [w EXCEPT !.locked = FALSE]

AfterLoop(w, response, attempts) ==
    LET fn == Top(w.stack)
        \* the call of send_command_with_retries is over and its locals are gone
        w1 == [w EXCEPT !.loop = NoLoop, !.hist.attempts = 0, !.hist.sleeps = 0]
    IN  CASE fn = "send_command_with_retries" ->
                [w EXCEPT !.pc = "done",
                          !.result = Some([response |-> response, attempts |-> attempts])]
          [] fn = "get_system_state" ->
                LET o == get_system_state_tail(w1.cache, response, w1.now)
                IN  Return(Release([w1 EXCEPT !.cache = o.cache,
                                              !.answer = Some(response)]),
                           o.val)
          [] fn = "get_device_info" ->
                LET o == get_device_info_tail(w1.device_info, response, w1.now)
                IN  Return(Release([w1 EXCEPT !.device_info = o.device_info]), o.val)
          [] fn \in LiteralSetters ->
                Return(w1, setter_tail(response))
          [] fn \in {"set_line_mode", "set_counter_value"} ->
                Return(Release(w1), setter_tail(response))

\* Variant of the loop body that reports the 0-based loop index (`attempt`
\* for `attempt + 1` in line 138).
send_command_with_retries_step_zero_based(w, response) ==
    LET w1 == [w EXCEPT !.hist.attempts = @ + 1,
                        !.hist.yields = IF Top(w.stack) = "send_command_with_retries"
                                        THEN Append(@, response) ELSE @]
    IN  IF response # Raised /\ Truthy(response)
        THEN AfterLoop(w1, response, w.loop.attempt)
        ELSE IF w.loop.attempt < w.loop.max_retries - 1
             THEN [w1 EXCEPT !.pc = "sleep"]
             ELSE AfterLoop(w1, NoResponse, w.loop.max_retries)

\* Variant of the loop body that sleeps after every failed attempt, the last
\* one included (`attempt < max_retries` for line 141 and line 147).
send_command_with_retries_step_sleeps_after_last(w, response) ==
    LET w1 == [w EXCEPT !.hist.attempts = @ + 1,
                        !.hist.yields = IF Top(w.stack) = "send_command_with_retries"
                                        THEN Append(@, response) ELSE @]
    IN  IF response # Raised /\ Truthy(response)
        THEN AfterLoop(w1, response, w.loop.attempt + 1)
        ELSE IF w.loop.attempt < w.loop.max_retries
             THEN [w1 EXCEPT !.pc = "sleep"]
             ELSE AfterLoop(w1, NoResponse, w.loop.max_retries)

\* one pass of the loop body of send_command_with_retries once _send_command
\* has yielded `response` (lines 135-143, 151)
send_command_with_retries_step(w, response) ==
    LET w1 == [w EXCEPT !.hist.attempts = @ + 1,
                        !.hist.yields = IF Top(w.stack) = "send_command_with_retries"
                                        THEN Append(@, response) ELSE @]
    IN  IF response # Raised /\ Truthy(response)
        THEN AfterLoop(w1, response, w.loop.attempt + 1)
        ELSE \* no response (lines 140-143) or an exception (lines 145-149)
             IF w.loop.attempt < w.loop.max_retries - 1
             THEN [w1 EXCEPT !.pc = "sleep"]
             ELSE AfterLoop(w1, NoResponse, w.loop.max_retries)

(***************************************************************************)
(* Actions.                                                                *)
(***************************************************************************)
\* A caller awaits one of the public operations.
Enter(w, fn, a) ==
    LET w1 == [w EXCEPT !.arg = a, !.success = FALSE, !.result = None,
                        !.answer = None, !.hist = NoHist, !.loop = NoLoop]
    IN  CASE fn \in LockFns ->
                [w1 EXCEPT !.stack = <<fn>>, !.pc = "acquire"]
          [] fn = "update_all" ->
                [w1 EXCEPT !.stack = <<fn, "get_system_state">>, !.pc = "acquire"]
          [] fn \in LiteralSetters ->
                StartLoop([w1 EXCEPT !.stack = <<fn>>],
                          LiteralCommand(fn, a.flag), DEFAULT_RETRY_ATTEMPTS)

Invoke(t) ==
    /\ pc[t] = "idle"
    /\ \E fn \in Operations : \E a \in Args(fn) :
          Apply(t, Enter(World(t), fn, a))
    /\ UNCHANGED now

\* `async with self._lock` is entered (the lock is not reentrant: it is
\* taken only when nobody holds it, the task itself included).
Acquired(w) ==
    LET fn == Top(w.stack)
        w1 == [w EXCEPT !.locked = TRUE]
    IN  CASE fn = "get_system_state" ->
                StartLoop(w1, create_command(PACKET_SYSTEM_STATE, << >>),
                          DEFAULT_RETRY_ATTEMPTS)
          [] fn = "get_device_info" ->
                StartLoop(w1, create_command(PACKET_DEVICE_INFO, << >>),
                          DEFAULT_RETRY_ATTEMPTS)
          [] fn = "set_line_mode" ->
                \* line 424: await self.get_system_state()
                [w1 EXCEPT !.stack = Append(@, "get_system_state"), !.pc = "acquire"]
          [] fn = "set_counter_value" ->
                \* line 448: await self.set_line_mode(line_number, True)
                [w1 EXCEPT !.stack = Append(@, "set_line_mode"), !.pc = "acquire"]

Acquire(t) ==
    /\ pc[t] = "acquire"
    /\ ~locked
    /\ Apply(t, Acquired(World(t)))
    /\ UNCHANGED now

\* _send_command returns: bytes, b'' or None
Transport(t) ==
    /\ pc[t] = "io"
    /\ \E response \in Outcomes :
          Apply(t, send_command_with_retries_step(World(t), response))
    /\ UNCHANGED now

\* `await asyncio.sleep(retry_delay)` is over: the next pass of the loop
Sleep(t) ==
    /\ pc[t] = "sleep"
    /\ Apply(t, [World(t) EXCEPT !.pc = "io",
                                 !.loop.attempt = @ + 1,
                                 !.hist.sleeps = @ + 1])
    /\ UNCHANGED now

\* The caller has its result; the task is free for the next call.
Finish(t) ==
    /\ pc[t] = "done"
    /\ Apply(t, [World(t) EXCEPT !.pc = "idle", !.stack = << >>, !.arg = NoArg,
                                 !.loop = NoLoop, !.success = FALSE, !.result = None,
                                 !.answer = None, !.hist = NoHist])
    /\ UNCHANGED now

\* A caller awaits send_command_with_retries itself, with its own max_retries.
DirectCall(t) ==
    /\ pc[t] = "idle"
    /\ \E max_retries \in 0..MaxRetries :
          LET command == create_command(PACKET_SYSTEM_STATE, << >>)
              w1 == [World(t) EXCEPT !.stack = <<"send_command_with_retries">>,
                                     !.arg = NoArg, !.success = FALSE, !.result = None,
                                     !.answer = None, !.hist = NoHist]
          IN  Apply(t, IF max_retries = 0
                       THEN \* range(0) is empty: line 151 at once
                            [w1 EXCEPT !.pc = "done",
                                       !.loop = [command |-> command, max_retries |-> 0,
                                                 attempt |-> 0],
                                       !.result = Some([response |-> NoResponse,
                                                        attempts |-> 0])]
                       ELSE StartLoop(w1, command, max_retries))
    /\ UNCHANGED now

\* _send_command replaced by a transport that raises (lines 145-149)
TransportRaises(t) ==
    /\ pc[t] = "io"
    /\ Apply(t, send_command_with_retries_step(World(t), Raised))
    /\ UNCHANGED now

Tick ==
    /\ now < MaxNow
    /\ now' = now + 1
    /\ UNCHANGED <<locked, system_state, sensors, counters, last_update, device_info,
                   stack, pc, arg, loop, success, result, answer, hist, call>>

\* NeptunDevice.__init__, lines 109-118, and no task running
Init ==
    /\ locked = FALSE
    /\ system_state = EmptyDict
    /\ sensors = EmptyDict
    /\ counters = EmptyDict
    /\ last_update = None
    /\ device_info = EmptyDict
    /\ now = 0
    /\ stack = [t \in Tasks |-> << >>]
    /\ pc = [t \in Tasks |-> "idle"]
    /\ arg = [t \in Tasks |-> NoArg]
    /\ loop = [t \in Tasks |-> NoLoop]
    /\ success = [t \in Tasks |-> FALSE]
    /\ result = [t \in Tasks |-> None]
    /\ answer = [t \in Tasks |-> None]
    /\ hist = [t \in Tasks |-> NoHist]
    /\ call = NoCall

Next ==
    \/ \E t \in Tasks : Invoke(t)
    \/ \E t \in Tasks : Acquire(t)
    \/ \E t \in Tasks : Transport(t)
    \/ \E t \in Tasks : Sleep(t)
    \/ \E t \in Tasks : Finish(t)
    \/ Tick

Spec == Init /\ [][Next]_vars

(***************************************************************************)
(* send_command_with_retries on its own: one caller, any max_retries in    *)
(* 0..MaxRetries, against a transport that answers, stays silent or raises.*)
(***************************************************************************)
Caller == CHOOSE t \in Tasks : \A u \in Tasks : t <= u

NextRetry ==
    \/ DirectCall(Caller)
    \/ Transport(Caller)
    \/ TransportRaises(Caller)
    \/ Sleep(Caller)
    \/ Finish(Caller)

SpecRetry == Init /\ [][NextRetry]_vars

\* The same with every transport attempt and every asyncio.sleep coming to an
\* end: each await of _send_command is bounded by a timeout or ends in an
\* exception, and retry_delay is finite.
SpecRetryLive ==
    /\ Init /\ [][NextRetry]_vars
    /\ WF_vars(Transport(Caller) \/ TransportRaises(Caller))
    /\ WF_vars(Sleep(Caller))

(***************************************************************************)
(* One caller of the public operations with the device to itself.  In the  *)
(* fair version the event loop resumes the caller whenever it can go on:   *)
(* the lock is handed to a waiter when it is free, every await of          *)
(* _send_command is bounded by a timeout or ends in an exception, and      *)
(* retry_delay is finite.                                                  *)
(***************************************************************************)
NextAlone ==
    \/ Invoke(Caller)
    \/ Acquire(Caller)
    \/ Transport(Caller)
    \/ Sleep(Caller)
    \/ Finish(Caller)

SpecAlone == Init /\ [][NextAlone]_vars

SpecAloneLive ==
    /\ Init /\ [][NextAlone]_vars
    /\ WF_vars(Acquire(Caller))
    /\ WF_vars(Transport(Caller))
    /\ WF_vars(Sleep(Caller))

(***************************************************************************)
(* _send_command (lines 153-191), one transport attempt.  What happens at  *)
(* its awaits is given by `ev`: ev.connect, ev.drain, ev.read and ev.close *)
(* each say whether the await came back ("ok") or which exception it       *)
(* raised, and ev.data is what reader.read returned.  The result is the    *)
(* value returned (or Raised), whether a connection was opened, and        *)
(* whether writer.close() was called on it.                                *)
(***************************************************************************)
Faults == {"TimeoutError", "OSError", "Exception"}

\* Variant of the except clauses without the catch-all of lines 189-191.
_send_command_except_no_catch_all(err) ==
    CASE err = "TimeoutError" -> NoResponse
      [] err = "OSError"      -> NoResponse
      [] OTHER                -> Raised

\* the except clauses, lines 183-191: what _send_command returns on err
_send_command_except(err) ==
    CASE err = "TimeoutError" -> NoResponse      \* lines 183-185
      [] err = "OSError"      -> NoResponse      \* lines 186-188
      [] OTHER                -> NoResponse      \* lines 189-191

_send_command(ev) ==
    IF ev.connect # "ok"          \* lines 160-163: no connection was made
    THEN [value |-> _send_command_except(ev.connect), opened |-> FALSE, closed |-> FALSE]
    ELSE IF ev.drain # "ok"       \* lines 166-167
    THEN [value |-> _send_command_except(ev.drain), opened |-> TRUE, closed |-> FALSE]
    ELSE IF ev.read # "ok"        \* lines 173-176
    THEN [value |-> _send_command_except(ev.read), opened |-> TRUE, closed |-> FALSE]
    ELSE IF ev.close # "ok"       \* line 179, after writer.close() of line 178
    THEN [value |-> _send_command_except(ev.close), opened |-> TRUE, closed |-> TRUE]
    ELSE [value |-> ev.data, opened |-> TRUE, closed |-> TRUE]        \* line 181

\* what reader.read(1024) can return
ReadResults == { << >>, <<2, 84>>, UnknownCommandResponse }

TransportEvents ==
    [connect : {"ok"} \cup Faults,
     drain   : {"ok", "OSError", "Exception"},
     read    : {"ok"} \cup Faults,
     close   : {"ok", "OSError", "Exception"},
     data    : ReadResults]

(***************************************************************************)
(* send_command_with_retries on its own with every attempt followed        *)
(* through _send_command: the attempt opens a connection unless the        *)
(* connect fails, writes loop.command to it (line 166) and closes it where *)
(* _send_command calls writer.close().  A connection the attempt leaves    *)
(* open stays open until the interpreter finalizes its transport, which    *)
(* may happen at any later time or not at all.                             *)
(***************************************************************************)
Attempted(w, o) ==
    LET opened == IF o.opened THEN 1 ELSE 0
        left   == IF o.opened /\ ~o.closed THEN 1 ELSE 0
        w1 == [w EXCEPT !.hist.frames = IF o.opened THEN Append(@, w.loop.command) ELSE @,
                        !.hist.peak = IF w.hist.open + opened > @
                                      THEN w.hist.open + opened ELSE @,
                        !.hist.open = @ + left]
    IN  send_command_with_retries_step(w1, o.value)

Attempt(t) ==
    /\ pc[t] = "io"
    /\ \E ev \in TransportEvents :
          Apply(t, Attempted(World(t), _send_command(ev)))
    /\ UNCHANGED now

\* the transport of a connection that was left open is finalized
Finalize(t) ==
    /\ hist[t].open > 0
    /\ Apply(t, [World(t) EXCEPT !.hist.open = @ - 1])
    /\ UNCHANGED now

NextAttempts ==
    \/ DirectCall(Caller)
    \/ Attempt(Caller)
    \/ Finalize(Caller)
    \/ Sleep(Caller)
    \/ Finish(Caller)

SpecAttempts == Init /\ [][NextAttempts]_vars

(***************************************************************************)
(* Calls, made on their own, of _send_command and of the functions that    *)
(* await nothing.                                                          *)
(***************************************************************************)
Called(fn, args, out) ==
    /\ call = NoCall
    /\ call' = [fn |-> fn, args |-> args, out |-> out]
    /\ UNCHANGED <<locked, system_state, sensors, counters, last_update, device_info,
                   now, stack, pc, arg, loop, success, result, answer, hist>>

Call_send_command ==
    \E ev \in TransportEvents : Called("_send_command", ev, _send_command(ev))

\* the code of a setter after its command sequence, with the response
\* send_command_with_retries returned to it
Call_setter_tail ==
    \E response \in Outcomes \ {<< >>} :
        Called("setter_tail", response, setter_tail(response))

\* Variant of is_online that still counts an update of exactly 600 seconds
\* ago (`<=` for `<` in line 478).
is_online_inclusive(lu, t) ==
    IF lu = None
    THEN FALSE
    ELSE (t - lu[1]) <= ONLINE_SECONDS

\* is_online (lines 471-478) with self.last_update = lu and datetime.now() = t,
\* both in seconds
is_online(lu, t) ==
    IF lu = None
    THEN FALSE
    ELSE (t - lu[1]) < ONLINE_SECONDS

\* last_update is unset, or the time of a decode
LastUpdates == {None} \cup {Some(u) : u \in 0..MaxNow}

Call_is_online ==
    \E lu \in LastUpdates : \E t \in 0..MaxAge :
        Called("is_online", [last_update |-> lu, now |-> t], is_online(lu, t))

\* byte strings crc16 is applied to: nothing, ASCII "123456789", and the
\* first 13 bytes of the 0x57 frame "valve open, other flags off"
CrcInputs ==
    { << >>,
      <<49, 50, 51, 52, 53, 54, 55, 56, 57>>,
      <<2, 84, 81, PACKET_SET_SYSTEM_STATE, 0, 7, 83, 0, 4, 1, 0, 0, 0>> }

Call_crc16 ==
    \E data \in CrcInputs : Called("crc16", data, crc16(data))

ControlCommandCall(line_configs) ==
    \E valve \in BOOLEAN, dry \in BOOLEAN, auto \in BOOLEAN, line_config \in line_configs :
        Called("create_control_command",
               [valve_state_open |-> valve, flag_dry |-> dry, flag_cl_valve |-> auto,
                line_in_config |-> line_config],
               create_control_command(valve, dry, auto, line_config))

Call_create_control_command == ControlCommandCall({0, 1, 128})

\* bytes.hex(): two hex digits per byte, high digit first
hex(data) ==
    [i \in 1..(2 * Len(data)) |->
        IF i % 2 = 1 THEN data[(i + 1) \div 2] \div 16 ELSE data[i \div 2] % 16]

\* Variant of the classification that looks at two bytes of the header only
\* (`startswith("0254")` in line 334).
classify_two_byte_header(response) ==
    LET response_hex == hex(response)
    IN  IF StartsWith(response_hex, <<0,2, 5,4, 4,1, 15,11>>) THEN "UnknownCommand"
        ELSE IF StartsWith(response_hex, <<0,2, 5,4, 4,1, 15,14>>) THEN "CrcError"
        ELSE IF ~StartsWith(response_hex, <<0,2, 5,4>>) THEN "Malformed"
        ELSE "Success"

\* get_system_state, lines 326-339: the branch a non-empty response takes
classify(response) ==
    LET response_hex == hex(response)
    IN  IF StartsWith(response_hex, <<0,2, 5,4, 4,1, 15,11>>)           \* "025441fb"
        THEN "UnknownCommand"                                         \* lines 328-330
        ELSE IF StartsWith(response_hex, <<0,2, 5,4, 4,1, 15,14>>)      \* "025441fe"
        THEN "CrcError"                                               \* lines 331-333
        ELSE IF ~StartsWith(response_hex, <<0,2, 5,4, 4,1>>)            \* "025441"
        THEN "Malformed"                                              \* lines 334-336
        ELSE "Success"                                                \* lines 338-339

ResponseBytes == {2, 84, 65, 81, 251, 254}

RECURSIVE ResponsesOfLength(_)
ResponsesOfLength(n) ==
    IF n = 0 THEN { << >> }
    ELSE { Append(r, b) : r \in ResponsesOfLength(n - 1), b \in ResponseBytes }

\* every non-empty response up to MaxResponse bytes, and the long ones
Responses ==
    UNION { ResponsesOfLength(n) : n \in 1..MaxResponse }
        \cup (Outcomes \ EmptyOutcomes)

Call_classify ==
    \E response \in Responses : Called("classify", response, classify(response))

CommandCodes == {0, PACKET_SYSTEM_STATE, PACKET_SET_SYSTEM_STATE, 255}
PayloadBytes == {0, 83, 255}

RECURSIVE PayloadsOfLength(_)
PayloadsOfLength(n) ==
    IF n = 0 THEN { << >> }
    ELSE { Append(p, b) : p \in PayloadsOfLength(n - 1), b \in PayloadBytes }

Payloads ==
    UNION { PayloadsOfLength(n) : n \in 0..MaxPayload }
        \cup { [i \in 1..LongPayload |-> i % 256] }

Call_create_command ==
    \E command_code \in CommandCodes : \E data_payload \in Payloads :
        Called("create_command",
               [command_code |-> command_code, data_payload |-> data_payload],
               create_command(command_code, data_payload))

(***************************************************************************)
(* sensor_mapping.py, and the entities of sensor.py that show a wireless   *)
(* sensor.  The str an f-string builds is held as its literal text and the *)
(* digits formatted into it.  coordinator.data is None until a poll        *)
(* succeeded and then the dict _async_update_data returned.                *)
(***************************************************************************)
\* the position tables, lines 9-37 (sensor number -> offset in the response)
SENSOR_BATTERY_POSITIONS == <<53, 57, 61>>
SENSOR_STATE_POSITIONS == <<51, 55, 59>>
SENSOR_INDEX_POSITIONS == <<52, 56, 60>>
SENSOR_SIGNAL_POSITIONS == <<54, 58, 62>>
SENSOR_INTERVAL == 4

\* struct.unpack('b', bytes([byte]))[0]: the byte as a two's-complement int8
unpack_b(byte) == IF byte >= 128 THEN byte - 256 ELSE byte

parse_battery_level(battery_byte) ==
    LET battery_signed == unpack_b(battery_byte)
    IN  IF battery_signed < 0
        THEN -battery_signed          \* abs(battery_signed), line 82
        ELSE battery_signed

str(text, digits) == [text |-> text, digits |-> digits]

\* Variant of parse_sensor_state whose state_map has the key 0x01 where
\* line 97 has 0x00.
parse_sensor_state_key_one(state_byte) ==
    CASE state_byte = 1 -> str("disconnected", << >>)
      [] state_byte = 2 -> str("triggered", << >>)
      [] state_byte = 3 -> str("normal", << >>)
      [] OTHER          -> str("unknown_", <<state_byte \div 16, state_byte % 16>>)

\* state_map.get(state_byte, f"unknown_{state_byte:02X}")
parse_sensor_state(state_byte) ==
    CASE state_byte = 0 -> str("disconnected", << >>)
      [] state_byte = 2 -> str("triggered", << >>)
      [] state_byte = 3 -> str("normal", << >>)
      [] OTHER          -> str("unknown_", <<state_byte \div 16, state_byte % 16>>)

\* the dict NeptunCoordinator._async_update_data returns after update_all
\* filled the cache c
_async_update_data(c) ==
    [device_info  |-> EmptyDict,
     system_state |-> c.system_state,
     sensors      |-> c.sensors,
     counters     |-> c.counters,
     last_update  |-> c.last_update]

\* NeptunWirelessSensorSensor.native_value of the entity of sensor_number
NeptunWirelessSensorSensor_native_value(data, sensor_number) ==
    IF data = None
    THEN None
    ELSE LET ss == Get(data, "system_state", EmptyDict)
             state == Get(ss, SensorStateKey(sensor_number), 0)
         IN  Some(CASE state = 0 -> "Disconnected"
                    [] state = 2 -> "Triggered"
                    [] state = 3 -> "Normal"
                    [] OTHER     -> "Unknown")

\* NeptunWirelessBatterySensor.native_value of the entity of sensor_number
NeptunWirelessBatterySensor_native_value(data, sensor_number) ==
    IF data = None
    THEN None
    ELSE LET ss == Get(data, "system_state", EmptyDict)
             battery == Get(ss, SensorBatteryKey(sensor_number), 0)
             battery_signed == unpack_b(battery)
         IN  Some(IF battery_signed < 0 THEN -battery_signed ELSE battery_signed)

\* a cache nothing was decoded into
EmptyCache == Cache(EmptyDict, EmptyDict, EmptyDict, None)

\* State responses in which sensor i reports the state byte b and the
\* battery byte 255 - b, every other byte being 0.
SensorBlob(i, b) ==
    [k \in 1..MIN_STATE_LENGTH |->
        CASE k - 1 = 51 + 4 * (i - 1) -> b
          [] k - 1 = 53 + 4 * (i - 1) -> 255 - b
          [] OTHER -> 0]

SensorBlobs == { SensorBlob(i, b) : i \in 1..3, b \in 0..255 }

\* what coordinator.data can be: None, or the data of a poll that decoded
\* one of the responses
CoordinatorData ==
    {None} \cup { _async_update_data(_parse_system_state(EmptyCache, data, 0)) :
                    data \in SensorBlobs }

Call_parse_battery_level ==
    \E battery_byte \in 0..255 :
        Called("parse_battery_level", battery_byte, parse_battery_level(battery_byte))

Call_parse_sensor_state ==
    \E state_byte \in 0..255 :
        Called("parse_sensor_state", state_byte, parse_sensor_state(state_byte))

Call_sensor_native_value ==
    \E data \in CoordinatorData : \E sensor_number \in 1..3 :
        Called("NeptunWirelessSensorSensor.native_value",
               [data |-> data, sensor_number |-> sensor_number],
               NeptunWirelessSensorSensor_native_value(data, sensor_number))

Call_battery_native_value ==
    \E data \in CoordinatorData : \E sensor_number \in 1..3 :
        Called("NeptunWirelessBatterySensor.native_value",
               [data |-> data, sensor_number |-> sensor_number],
               NeptunWirelessBatterySensor_native_value(data, sensor_number))

Call_parse_system_state ==
    \E data \in SensorBlobs :
        Called("_parse_system_state", data, _parse_system_state(EmptyCache, data, 0))

(***************************************************************************)
(* NeptunCoordinator (__init__.py): one poll.  _async_update_data awaits   *)
(* device.update_all() and nothing else, so what it does after the await   *)
(* depends on the value update_all returned and on the cache of the device *)
(* at that moment; `available` is read right after it.                     *)
(***************************************************************************)
\* _async_update_data, lines 83-102, from the return of update_all with the
\* value `succeeded` (the local `success`): how it ends and what
\* self._available is then
_async_update_data_end(succeeded, _available) ==
    IF ~succeeded
    THEN [outcome |-> "UpdateFailed", _available |-> FALSE]  \* lines 85-87, 100-102
    ELSE [outcome |-> "returned", _available |-> TRUE]       \* lines 89-98

\* NeptunCoordinator.available, lines 76-79
available(_available, lu, t) == _available /\ is_online(lu, t)

\* One poll that finds the device with last_update = lu at time t, and the
\* reading of `available` that follows it.
Poll ==
    \E succeeded \in BOOLEAN, _available \in BOOLEAN, lu \in LastUpdates, t \in 0..MaxAge :
        LET end == _async_update_data_end(succeeded, _available)
        IN  Called("_async_update_data",
                   [success |-> succeeded, _available |-> _available,
                    last_update |-> lu, now |-> t],
                   [outcome |-> end.outcome, _available |-> end._available,
                    available |-> available(end._available, lu, t)])

SpecPoll == Init /\ [][Poll]_vars

(***************************************************************************)
(* The user config flow (config_flow.py).  validate_input makes a new      *)
(* NeptunDevice and awaits get_system_state once; `response` is what       *)
(* send_command_with_retries handed that query.  A Python value is a       *)
(* record with its kind: a dict has the method get, the coroutine object   *)
(* that calling an async def without await yields has not.                 *)
(***************************************************************************)
DEFAULT_PORT == 6350
DEFAULT_SCAN_INTERVAL == 120

ERROR_CANNOT_CONNECT == "cannot_connect"
ERROR_INVALID_HOST == "invalid_host"
ERROR_TIMEOUT == "timeout"
ERROR_UNKNOWN == "unknown"

Dict(items) == [kind |-> "dict", items |-> items]
Coroutine(fn) == [kind |-> "coroutine", fn |-> fn]

\* hasattr(value, "get")
HasGet(value) == value.kind = "dict"

\* the except clauses of validate_input, lines 66-72, tried in order: the
\* ValueError that leaves the function for an exception of class `cls`
validate_input_except(cls) ==
    CASE cls = "TimeoutError" -> "timeout"
      [] cls = "OSError"      -> "cannot_connect"
      [] OTHER                -> "unknown"

\* validate_input, lines 40-72: raised is the message of the ValueError it
\* raises, or None when it returns `value`
validate_input(data, response) ==
    LET succeeded   == get_system_state_tail(EmptyCache, response, 0).val
        info        == Coroutine("get_device_info")
    IN  IF ~succeeded
        THEN [raised |-> Some(validate_input_except("ValueError")), value |-> None]
        ELSE IF ~HasGet(info)
        THEN [raised |-> Some(validate_input_except("AttributeError")), value |-> None]
        ELSE [raised |-> None,
              value |-> Some([title |-> Get(info.items, "name", <<"Equation Device", data.host>>),
                              device_info |-> info,
                              host |-> data.host,
                              port |-> data.port])]

async_show_form(errors) == [type |-> "form", step_id |-> "user", errors |-> errors]

\* ConfigFlow.async_step_user, lines 80-117; `configured` are the unique ids
\* of the entries that exist
async_step_user(user_input, response, configured) ==
    IF user_input = None
    THEN async_show_form(EmptyDict)
    ELSE LET info == validate_input(user_input[1], response)
         IN  IF info.raised # None
             THEN async_show_form(
                    [base |-> CASE info.raised[1] = "cannot_connect" -> ERROR_CANNOT_CONNECT
                                [] info.raised[1] = "timeout"        -> ERROR_TIMEOUT
                                [] info.raised[1] = "invalid_host"   -> ERROR_INVALID_HOST
                                [] OTHER                             -> ERROR_UNKNOWN])
             ELSE IF user_input[1].host \in configured
             THEN [type |-> "abort", reason |-> "already_configured"]
             ELSE [type |-> "create_entry",
                   title |-> info.value[1].title,
                   data |-> user_input[1]]

Hosts == {"192.168.1.50", "neptun.local"}

UserInputs ==
    { [host |-> h, port |-> DEFAULT_PORT, scan_interval |-> DEFAULT_SCAN_INTERVAL,
       discovery |-> d] : h \in Hosts, d \in BOOLEAN }

\* what the state query of validate_input can be handed
FlowResponses == Outcomes

Call_validate_input ==
    \E data \in UserInputs, response \in FlowResponses :
        Called("validate_input", [data |-> data, response |-> response],
               validate_input(data, response))

Call_async_step_user ==
    \E user_input \in {None} \cup { Some(d) : d \in UserInputs },
       response \in FlowResponses, configured \in SUBSET Hosts :
        Called("async_step_user",
               [user_input |-> user_input, response |-> response, configured |-> configured],
               async_step_user(user_input, response, configured))

NextFlow ==
    \/ Call_validate_input
    \/ Call_async_step_user

SpecFlow == Init /\ [][NextFlow]_vars

NextCalls ==
    \/ Call_classify
    \/ Call_create_command
    \/ Call_send_command
    \/ Call_setter_tail
    \/ Call_is_online
    \/ Call_crc16
    \/ Call_create_control_command
    \/ Call_parse_battery_level
    \/ Call_parse_sensor_state
    \/ Call_sensor_native_value
    \/ Call_battery_native_value
    \/ Call_parse_system_state

SpecCalls == Init /\ [][NextCalls]_vars

\* The decoder on its own.  A ramp is a response whose byte at offset k is
\* k (mod 256), so that no two of the first 256 offsets hold the same byte;
\* the decoder gets every ramp of MIN_STATE_LENGTH up to MIN_STATE_LENGTH +
\* MaxExtra bytes with one byte replaced by 0x00, 0x01, 0x08 or 0x0F (the
\* bytes the flags are compared with).
RampBlob(length) == [k \in 1..length |-> (k - 1) % 256]

WithByte(data, offset, value) == [data EXCEPT ![offset + 1] = value]

DecodeInputs ==
    { WithByte(RampBlob(length), offset, value) :
        length \in MIN_STATE_LENGTH..(MIN_STATE_LENGTH + MaxExtra),
        offset \in 0..(MIN_STATE_LENGTH - 1),
        value \in {0, 1, 8, 15} }

NextDecode ==
    \E data \in DecodeInputs :
        Called("_parse_system_state", data, _parse_system_state(EmptyCache, data, 0))

SpecDecode == Init /\ [][NextDecode]_vars

\* create_control_command on its own, with every combination of its
\* arguments
NextControl == ControlCommandCall(0..255)

SpecControl == Init /\ [][NextControl]_vars

(***************************************************************************)
(* Vocabulary of the properties.                                           *)
(***************************************************************************)
\* The classes of a response, by its first bytes.
IsUnknownCommand(r) == Len(r) >= 4 /\ SubSeq(r, 1, 4) = <<2, 84, 65, 251>>
IsCrcError(r)       == Len(r) >= 4 /\ SubSeq(r, 1, 4) = <<2, 84, 65, 254>>
IsMalformed(r)      == ~(Len(r) >= 3 /\ SubSeq(r, 1, 3) = <<2, 84, 65>>)
IsSuccess(r)        == ~IsUnknownCommand(r) /\ ~IsCrcError(r) /\ ~IsMalformed(r)

\* The state query got nothing usable: no response within the retry budget,
\* or a response of one of the three error classes.
Unusable(r) ==
    \/ r = NoResponse
    \/ IsUnknownCommand(r) \/ IsCrcError(r) \/ IsMalformed(r)

CurrentCache == Cache(system_state, sensors, counters, last_update)

\* Task t is between the first transport attempt of a command sequence and
\* the return of the coroutine that sends it.
InSequence(t) == pc[t] \in {"io", "sleep"}

\* Task t is inside get_system_state, past the lock.
InRefresh(t) == InSequence(t) /\ Top(stack[t]) = "get_system_state"

\* This step is the return of the get_system_state that task t is in, and
\* RefreshValue is the value it returns (to the caller, or to update_all,
\* which keeps it in `success`).
RefreshReturns(t) == InRefresh(t) /\ ~InSequence(t)'
RefreshValue(t) == IF Len(stack[t]) = 1 THEN result'[t][1] ELSE success'[t]

\* This step is the return of the operation fn that task t called.
OperationReturns(t, fn) ==
    /\ pc[t] # "done" /\ pc'[t] = "done"
    /\ stack[t] # << >> /\ stack[t][1] = fn

\* Task t has the frame `command` of operation fn on the wire.
Sending(t, fn) == pc[t] = "io" /\ Top(stack[t]) = fn

\* The cache holds exactly what snapshot s says, decoded at time t.
FromSnapshot(c, s, t) ==
    /\ c.last_update = Some(t)
    /\ DOMAIN c.system_state = DOMAIN ParsedFields(StateBlob(s, MIN_STATE_LENGTH))
    /\ c.system_state.valve_open = (s.valve = 1)
    /\ c.system_state.dry_mode = (s.mode = 15)
    /\ c.system_state.auto_close = (s.auto = 8)
    /\ DOMAIN c.sensors = {SensorKey(i) : i \in 1..3}
    /\ DOMAIN c.counters = {CounterKey(i) : i \in 1..3}
    /\ \A i \in 1..3 :
          /\ c.system_state[SensorStateKey(i)] = s.states[i]
          /\ c.system_state[SensorBatteryKey(i)] = s.batteries[i]
          /\ c.system_state[SensorFlagKey(i)] = s.flags[i]
          /\ c.system_state[CounterDataKey(i)] = s.counts[i]
          /\ c.sensors[SensorKey(i)].battery_percent = s.batteries[i]
          /\ c.sensors[SensorKey(i)].flag = s.flags[i]
          /\ c.sensors[SensorKey(i)].state =
                (CASE s.states[i] = 0 -> "disconnected"
                   [] s.states[i] = 2 -> "triggered"
                   [] s.states[i] = 3 -> "normal"
                   [] OTHER -> "unknown")
          /\ c.counters[CounterKey(i)].data = s.counts[i]

\* Offsets of the flag bytes in a 0x57 control frame.
ValveByte(command) == At(command, 9)
DryByte(command)   == At(command, 10)
AutoByte(command)  == At(command, 11)

(***************************************************************************)
(* C1.  At most one command sequence is in flight per device: no two       *)
(* tasks are at the same time between the first transport attempt and the  *)
(* return of their operations.  (Fails: the setters bound on the class,    *)
(* lines 491-558, never take self._lock.)                                  *)
(***************************************************************************)
C1_OneSequenceInFlight ==
    \A t, u \in Tasks : t # u => ~(InSequence(t) /\ InSequence(u))

(***************************************************************************)
(* C2.  No operation waits for a lock that its own call chain holds (so    *)
(* that, every transport attempt terminating, every operation returns).    *)
(* (Fails: set_line_mode awaits get_system_state, and set_counter_value    *)
(* awaits set_line_mode, inside `async with self._lock`, and asyncio.Lock  *)
(* is not reentrant.)                                                      *)
(***************************************************************************)
HoldsLockInChain(t) ==
    \E i \in 1..(Len(stack[t]) - 1) : stack[t][i] \in LockFns

C2_NoSelfDeadlock ==
    \A t \in Tasks : ~(pc[t] = "acquire" /\ HoldsLockInChain(t))

(***************************************************************************)
(* C3.  A state query that gets no response within the retry budget, or a  *)
(* response of class UnknownCommand, CrcError or Malformed, makes           *)
(* get_system_state return false with system_state, sensors, counters and  *)
(* last_update as they were before the call: nothing changes them while    *)
(* the call is past the lock, and its return does not either.              *)
(***************************************************************************)
C3_FailedRefreshKeepsCache ==
    [][\A t \in Tasks :
          /\ (InRefresh(t) /\ CurrentCache' # CurrentCache) => RefreshReturns(t)
          /\ (RefreshReturns(t) /\ Unusable(answer'[t][1])) =>
                /\ RefreshValue(t) = FALSE
                /\ CurrentCache' = CurrentCache]_vars

\* a refresh has failed on an UnknownCommand response with an older state cached
C3_Witness ==
    \E t \in Tasks :
        /\ pc[t] = "done" /\ stack[t] = <<"get_system_state">>
        /\ answer[t] = Some(UnknownCommandResponse)
        /\ result[t] = Some(FALSE)
        /\ last_update # None /\ last_update[1] < now

(***************************************************************************)
(* C4.  get_system_state returns true only if the response of that call    *)
(* was of class Success and at least 112 bytes long and the cache and      *)
(* last_update were replaced from it.  (Fails: a Success response shorter  *)
(* than 112 bytes is dropped by _parse_system_state, line 197, and         *)
(* get_system_state still returns True, line 339.)                         *)
(***************************************************************************)
C4_TrueOnlyIfDecoded ==
    [][\A t \in Tasks :
          (RefreshReturns(t) /\ RefreshValue(t) = TRUE) =>
             /\ IsSuccess(answer'[t][1])
             /\ Len(answer'[t][1]) >= MIN_STATE_LENGTH
             /\ last_update' = Some(now)
             /\ \E s \in Snapshots :
                   /\ answer'[t][1] = StateBlob(s, MIN_STATE_LENGTH)
                   /\ FromSnapshot(CurrentCache', s, now)]_vars

(***************************************************************************)
(* C5.  Decoding is all or nothing: a step leaves system_state, sensors,   *)
(* counters and last_update all as they were, or it is the return of a     *)
(* state query whose response had at least 112 bytes and after it every    *)
(* one of them comes from that response (and the time of the step).        *)
(***************************************************************************)
C5_DecodeAllOrNothing ==
    [][\/ CurrentCache' = CurrentCache
       \/ \E t \in Tasks :
             /\ RefreshReturns(t)
             /\ Len(answer'[t][1]) >= MIN_STATE_LENGTH
             /\ \E s \in Snapshots :
                   /\ answer'[t][1] = StateBlob(s, MIN_STATE_LENGTH)
                   /\ FromSnapshot(CurrentCache', s, now)]_vars

\* a second decode has replaced a cache that came from another snapshot, and
\* a short response has been dropped since
C5_Witness ==
    /\ last_update = Some(1)
    /\ FromSnapshot(CurrentCache, SnapshotList[2], 1)
    /\ \E t \in Tasks :
          /\ pc[t] = "done" /\ stack[t] = <<"get_system_state">>
          /\ answer[t] # None /\ IsSuccess(answer[t][1])
          /\ Len(answer[t][1]) < MIN_STATE_LENGTH

(***************************************************************************)
(* C6.  The control frame set_valve_state(open) sends carries the          *)
(* requested valve byte and the dry_mode and auto_close bytes of the state *)
(* fetched by a state query made just before it in the same operation.     *)
(* (Fails: the bound set_valve_state, lines 491-512, makes no state query  *)
(* and sends a literal frame whose dry_mode and auto_close bytes are 0.)   *)
(***************************************************************************)
C6_ValveFramePreservesFlags ==
    \A t \in Tasks :
        Sending(t, "set_valve_state") =>
            /\ ValveByte(loop[t].command) = BoolByte(arg[t].flag)
            /\ hist[t].oplog = <<PACKET_SYSTEM_STATE, PACKET_SET_SYSTEM_STATE>>
            /\ DryByte(loop[t].command) = BoolByte(Get(system_state, "dry_mode", FALSE))
            /\ AutoByte(loop[t].command) = BoolByte(Get(system_state, "auto_close", FALSE))

(***************************************************************************)
(* C7.  set_valve_state(open) returns true only if a second state query    *)
(* followed the answered control frame and the valve flag it decoded is    *)
(* the requested one.  (Fails: the bound set_valve_state returns True as   *)
(* soon as the control frame is answered, lines 503-506.)                  *)
(***************************************************************************)
C7_ValveTrueOnlyIfConfirmed ==
    [][\A t \in Tasks :
          (OperationReturns(t, "set_valve_state") /\ result'[t] = Some(TRUE)) =>
             /\ hist'[t].oplog = <<PACKET_SYSTEM_STATE, PACKET_SET_SYSTEM_STATE,
                                   PACKET_SYSTEM_STATE>>
             /\ "valve_open" \in DOMAIN system_state'
             /\ system_state'["valve_open"] = arg[t].flag]_vars

(***************************************************************************)
(* C8.  set_dry_mode(x) and set_auto_close(x) are read-modify-write: the   *)
(* control frame carries the target flag set to x and the other two flags  *)
(* as the state query made at the start of the operation reported them.    *)
(* (Fails: the bound setters, lines 514-558, make no state query and send  *)
(* literal frames with the other two flags 0.)                             *)
(***************************************************************************)
C8_ModeFramesPreserveFlags ==
    \A t \in Tasks :
        /\ Sending(t, "set_dry_mode") =>
              /\ DryByte(loop[t].command) = BoolByte(arg[t].flag)
              /\ hist[t].oplog = <<PACKET_SYSTEM_STATE, PACKET_SET_SYSTEM_STATE>>
              /\ ValveByte(loop[t].command) = BoolByte(Get(system_state, "valve_open", TRUE))
              /\ AutoByte(loop[t].command) = BoolByte(Get(system_state, "auto_close", FALSE))
        /\ Sending(t, "set_auto_close") =>
              /\ AutoByte(loop[t].command) = BoolByte(arg[t].flag)
              /\ hist[t].oplog = <<PACKET_SYSTEM_STATE, PACKET_SET_SYSTEM_STATE>>
              /\ ValveByte(loop[t].command) = BoolByte(Get(system_state, "valve_open", TRUE))
              /\ DryByte(loop[t].command) = BoolByte(Get(system_state, "dry_mode", FALSE))

(***************************************************************************)
(* C9.  When set_dry_mode(x) returns true the cached dry_mode is x on      *)
(* return, when set_auto_close(x) returns true the cached auto_close is x, *)
(* and when either returns false the flag is not written.  (Fails: the     *)
(* bound setters, lines 514-558, return True without touching              *)
(* self.system_state.)                                                     *)
(***************************************************************************)
PatchedOnReturn(t, fn, key) ==
    OperationReturns(t, fn) =>
        IF result'[t] = Some(TRUE)
        THEN key \in DOMAIN system_state' /\ system_state'[key] = arg[t].flag
        ELSE system_state' = system_state

C9_OptimisticPatch ==
    [][\A t \in Tasks :
          /\ PatchedOnReturn(t, "set_dry_mode", "dry_mode")
          /\ PatchedOnReturn(t, "set_auto_close", "auto_close")]_vars

(***************************************************************************)
(* C10.  send_command_with_retries returns on the first attempt that       *)
(* yields a non-empty response, of whatever class: if attempts 1..k-1      *)
(* yield nothing and attempt k <= max_retries yields bytes, the result is  *)
(* (those bytes, k), k transport attempts were made and k-1 sleeps, one    *)
(* after each failed attempt, and while attempts are still being made all  *)
(* earlier ones have failed and been followed by a sleep.                  *)
(***************************************************************************)
C10_ReturnsOnFirstResponse ==
    \A t \in Tasks :
        (stack[t] = <<"send_command_with_retries">>) =>
            LET ys == hist[t].yields
            IN  /\ \A i \in 1..(Len(ys) - 1) : ys[i] = Raised \/ ~Truthy(ys[i])
                /\ hist[t].attempts = Len(ys)
                /\ pc[t] = "io" => hist[t].sleeps = Len(ys)
                /\ pc[t] = "sleep" => hist[t].sleeps = Len(ys) - 1
                /\ (pc[t] = "done" /\ Len(ys) > 0
                       /\ ys[Len(ys)] # Raised /\ Truthy(ys[Len(ys)])) =>
                      /\ result[t] = Some([response |-> ys[Len(ys)], attempts |-> Len(ys)])
                      /\ Len(ys) <= loop[t].max_retries
                      /\ hist[t].attempts = Len(ys)
                      /\ hist[t].sleeps = Len(ys) - 1

\* two silent attempts, then an UnknownCommand response at the third
C10_Witness ==
    /\ pc[Caller] = "done"
    /\ stack[Caller] = <<"send_command_with_retries">>
    /\ hist[Caller].yields = <<NoResponse, << >>, UnknownCommandResponse>>
    /\ result[Caller] = Some([response |-> UnknownCommandResponse, attempts |-> 3])

(***************************************************************************)
(* C11.  Against a transport whose every attempt fails (yields None or b'' *)
(* or raises), send_command_with_retries called with max_retries >= 1      *)
(* comes to an end, and it ends with (None, max_retries) after exactly     *)
(* max_retries transport attempts and max_retries - 1 sleeps: one sleep    *)
(* between two attempts and none after the last.                           *)
(***************************************************************************)
AllFailed(ys) == \A i \in 1..Len(ys) : ys[i] = Raised \/ ~Truthy(ys[i])

C11_AllFailReturnsNone ==
    /\ [](\A t \in Tasks :
            (/\ stack[t] = <<"send_command_with_retries">>
             /\ loop[t].max_retries >= 1
             /\ AllFailed(hist[t].yields)) =>
                /\ hist[t].attempts = Len(hist[t].yields)
                /\ hist[t].attempts <= loop[t].max_retries
                /\ hist[t].sleeps <= loop[t].max_retries - 1
                /\ pc[t] = "sleep" => hist[t].attempts < loop[t].max_retries
                /\ pc[t] = "done" =>
                      /\ result[t] = Some([response |-> NoResponse,
                                           attempts |-> loop[t].max_retries])
                      /\ hist[t].attempts = loop[t].max_retries
                      /\ hist[t].sleeps = loop[t].max_retries - 1)
    /\ \A t \in Tasks : (pc[t] \in {"io", "sleep"}) ~> (pc[t] = "done")

\* three attempts have failed, each in another way, and the call has ended
C11_Witness ==
    /\ pc[Caller] = "done"
    /\ stack[Caller] = <<"send_command_with_retries">>
    /\ loop[Caller].max_retries = 3
    /\ hist[Caller].yields = <<NoResponse, Raised, << >> >>
    /\ hist[Caller].sleeps = 2
    /\ result[Caller] = Some([response |-> NoResponse, attempts |-> 3])

(***************************************************************************)
(* C12.  Every connection _send_command opens is closed before it          *)
(* returns, on every exit path.  (Fails: writer.close() is reached only    *)
(* after a read that came back, line 178; there is no finally, so an       *)
(* exception in drain or a timeout or error in read leaves the connection  *)
(* open.)                                                                  *)
(***************************************************************************)
C12_ConnectionClosedOnExit ==
    call.fn = "_send_command" => (call.out.opened => call.out.closed)

(***************************************************************************)
(* C13.  _send_command never raises: a timeout, an OSError or any other    *)
(* exception at connect, write, read or close makes it return None, and    *)
(* it returns what reader.read returned when nothing went wrong.           *)
(***************************************************************************)
C13_TransportNeverRaises ==
    call.fn = "_send_command" =>
        LET ev == call.args
            faults == {ev.connect, ev.drain, ev.read, ev.close} \ {"ok"}
        IN  /\ call.out.value # Raised
            /\ faults # {} => call.out.value = NoResponse
            /\ faults = {} => call.out.value = ev.data

\* an exception that is neither a timeout nor an OSError, while reading
C13_Witness ==
    /\ call.fn = "_send_command"
    /\ call.args.connect = "ok" /\ call.args.drain = "ok"
    /\ call.args.read = "Exception"
    /\ call.out.value = NoResponse

(***************************************************************************)
(* C14.  Fail soft: every public operation, whatever its arguments and     *)
(* whatever the transport does, ends, and ends by returning a boolean.  As *)
(* a property of states: an operation that has returned has returned TRUE  *)
(* or FALSE, and an operation that waits for the device lock waits for a   *)
(* lock that is free or held by a task that is sending its command         *)
(* sequence and will release it.  (Fails: set_line_mode and                *)
(* set_counter_value wait for the lock they hold themselves and never      *)
(* return; a get_system_state called after that never returns either.)     *)
(***************************************************************************)
\* Task u is inside an `async with self._lock` block.
LockHolder(u) ==
    \E i \in 1..Len(stack[u]) :
        /\ stack[u][i] \in LockFns
        /\ i < Len(stack[u]) \/ pc[u] \in {"io", "sleep"}

C14_EndsWithBoolean ==
    \A t \in Tasks :
        /\ (pc[t] = "done" /\ stack[t][1] \in Operations) =>
              result[t] \in {Some(TRUE), Some(FALSE)}
        /\ (pc[t] = "acquire" /\ locked) =>
              \E u \in Tasks : LockHolder(u) /\ pc[u] \in {"io", "sleep"}

(***************************************************************************)
(* C15.  A response of class UnknownCommand, CrcError or Malformed is a    *)
(* failed attempt for every command: a setter to which                     *)
(* send_command_with_retries returns such a response returns false.        *)
(* (Fails: the setters test only whether the response is non-empty, lines  *)
(* 504, 527, 550, 438, 454, and return True on 02 54 41 FB.)               *)
(***************************************************************************)
C15_ErrorResponseFailsSetter ==
    (/\ call.fn = "setter_tail"
     /\ call.args # NoResponse
     /\ \/ IsUnknownCommand(call.args)
        \/ IsCrcError(call.args)
        \/ IsMalformed(call.args)) =>
        call.out = FALSE

(***************************************************************************)
(* C16.  is_online() is true exactly when last_update is set and less than *)
(* 600 seconds old: false when last_update is unset, false when the age is *)
(* exactly 600 seconds, false when it is more.                             *)
(***************************************************************************)
C16_OnlineIffFresh ==
    call.fn = "is_online" =>
        LET lu == call.args.last_update
            t  == call.args.now
        IN  /\ lu = None => call.out = FALSE
            /\ lu # None =>
                  /\ t - lu[1] < 600 => call.out = TRUE
                  /\ t - lu[1] = 600 => call.out = FALSE
                  /\ t - lu[1] > 600 => call.out = FALSE

\* asked exactly 600 seconds after the last decode
C16_Witness ==
    /\ call.fn = "is_online"
    /\ call.args.last_update = Some(1)
    /\ call.args.now = 601
    /\ call.out = FALSE

(***************************************************************************)
(* C17.  system_state, sensors and counters change in two ways only: the   *)
(* return of a successful state query replaces all three from its          *)
(* response, or the return of a set_dry_mode / set_auto_close that         *)
(* succeeded writes that one flag.  Every other step of an operation -     *)
(* those of get_device_info, set_line_mode, set_counter_value and of a     *)
(* failed setter among them, the state queries they run apart - leaves     *)
(* the three as they were.                                                 *)
(***************************************************************************)
CachedState == <<system_state, sensors, counters>>

\* Task t takes this step.
TaskSteps(t) ==
    <<stack[t], pc[t], loop[t], hist[t], result[t]>>' #
        <<stack[t], pc[t], loop[t], hist[t], result[t]>>

\* This step is a successful state query replacing the cached state.
FullReplace ==
    \E t \in Tasks :
        /\ RefreshReturns(t) /\ RefreshValue(t) = TRUE
        /\ \E s \in Snapshots : FromSnapshot(CurrentCache', s, now)

\* This step is a successful setter writing its one flag.
FlagPatch ==
    \E t \in Tasks : \E key \in {"dry_mode", "auto_close"} :
        /\ OperationReturns(t, IF key = "dry_mode" THEN "set_dry_mode" ELSE "set_auto_close")
        /\ result'[t] = Some(TRUE)
        /\ system_state' = Update(system_state, [k \in {key} |-> arg[t].flag])
        /\ sensors' = sensors /\ counters' = counters

C17_CacheWriters ==
    [][/\ CachedState' # CachedState => (FullReplace \/ FlagPatch)
       /\ \A t \in Tasks :
             (/\ TaskSteps(t)
              /\ stack[t] # << >> => Top(stack[t]) # "get_system_state"
              /\ ~FlagPatch) =>
                CachedState' = CachedState]_vars

\* get_device_info has succeeded a second after a decode and the cache is
\* still the one of that decode
C17_Witness ==
    /\ FromSnapshot(CurrentCache, SnapshotList[1], 0)
    /\ now = 1
    /\ \E t \in Tasks :
          /\ pc[t] = "done" /\ stack[t] = <<"get_device_info">>
          /\ result[t] = Some(TRUE)
          /\ device_info.last_update = 1

(***************************************************************************)
(* C18.  crc16 of the 13 bytes 02 54 51 57 00 07 53 00 04 01 00 00 00 is   *)
(* (0x89, 0xA5), and each literal frame of the setters is what             *)
(* create_control_command builds for the flags it stands for with          *)
(* line_config = 0.  (Fails: crc16 as written gives (0x7C, 0x66) for these *)
(* bytes, and none of the four literal frames ends in the CRC that         *)
(* create_control_command appends.)                                        *)
(***************************************************************************)
\* The flags the literal frame of setter fn stands for.
LiteralFlags(fn, flag) ==
    [valve_state_open |-> (fn = "set_valve_state" /\ flag),
     flag_dry         |-> (fn = "set_dry_mode" /\ flag),
     flag_cl_valve    |-> (fn = "set_auto_close" /\ flag),
     line_in_config   |-> 0]

C18_LiteralFramesMatchBuilder ==
    /\ (call.fn = "crc16"
            /\ call.args = <<2, 84, 81, 87, 0, 7, 83, 0, 4, 1, 0, 0, 0>>) =>
          call.out = <<137, 165>>
    /\ call.fn = "create_control_command" =>
          \A fn \in LiteralSetters : \A flag \in BOOLEAN :
              call.args = LiteralFlags(fn, flag) => call.out = LiteralCommand(fn, flag)

(***************************************************************************)
(* C19.  create_command(code, payload) returns 02 54 51, the code, the     *)
(* length of the payload as two bytes, high byte first, the payload        *)
(* itself, and the two bytes (hi, lo) of crc16 over everything before      *)
(* them: len(payload) + 8 bytes in all.                                    *)
(***************************************************************************)
C19_FrameLayout ==
    call.fn = "create_command" =>
        LET code    == call.args.command_code
            payload == call.args.data_payload
            n       == Len(payload)
            frame   == call.out
        IN  /\ Len(frame) = n + 8
            /\ SubSeq(frame, 1, 3) = <<2, 84, 81>>
            /\ frame[4] = code
            /\ frame[5] \in 0..255 /\ frame[6] \in 0..255
            /\ 256 * frame[5] + frame[6] = n
            /\ SubSeq(frame, 7, n + 6) = payload
            /\ <<frame[n + 7], frame[n + 8]>> = crc16(SubSeq(frame, 1, n + 6))

\* a payload long enough for the high length byte to count
C19_Witness ==
    /\ call.fn = "create_command"
    /\ Len(call.args.data_payload) > 255
    /\ call.out[5] > 0
    /\ Len(call.out) = Len(call.args.data_payload) + 8

(***************************************************************************)
(* C20.  The classification of a response in get_system_state is total and *)
(* follows the rule: first four bytes 02 54 41 FB - UnknownCommand;        *)
(* 02 54 41 FE - CrcError; first three bytes not 02 54 41, every response  *)
(* of one or two bytes included - Malformed; everything else - Success.    *)
(***************************************************************************)
C20_ClassificationRule ==
    call.fn = "classify" =>
        LET r == call.args
        IN  /\ call.out \in {"UnknownCommand", "CrcError", "Malformed", "Success"}
            /\ (Len(r) >= 4 /\ <<r[1], r[2], r[3], r[4]>> = <<2, 84, 65, 251>>)
                    => call.out = "UnknownCommand"
            /\ (Len(r) >= 4 /\ <<r[1], r[2], r[3], r[4]>> = <<2, 84, 65, 254>>)
                    => call.out = "CrcError"
            /\ (Len(r) < 3 \/ <<r[1], r[2], r[3]>> # <<2, 84, 65>>)
                    => call.out = "Malformed"
            /\ ((Len(r) >= 3 /\ <<r[1], r[2], r[3]>> = <<2, 84, 65>>)
                    /\ (Len(r) >= 4 => r[4] \notin {251, 254}))
                    => call.out = "Success"

\* a response of two bytes, the first two of a good header
C20_Witness ==
    /\ call.fn = "classify"
    /\ call.args = <<2, 84>>
    /\ call.out = "Malformed"

(***************************************************************************)
(* C21, C22: the battery percent of a sensor.                              *)
(***************************************************************************)
\* abs(signed8(b)) of a byte b
AbsSigned8(b) == IF b < 128 THEN b ELSE 256 - b

\* the byte of the response `data` that holds the battery of sensor i
BatteryByte(data, i) == At(data, 53 + 4 * (i - 1))

\* C21: for every byte b the battery percent reported for a sensor is
\* abs(signed8(b)): what parse_battery_level returns, what
\* NeptunWirelessBatterySensor.native_value returns, and the battery_percent
\* the decoder stores in sensors[..].
C21_BatteryPercentIsAbsSigned8 ==
    /\ (call.fn = "parse_battery_level")
          => (call.out = AbsSigned8(call.args))
    /\ (call.fn = "NeptunWirelessBatterySensor.native_value" /\ call.args.data # None)
          => (call.out = Some(AbsSigned8(
                  call.args.data.system_state[SensorBatteryKey(call.args.sensor_number)])))
    /\ (call.fn = "_parse_system_state")
          => (\A i \in 1..3 :
                 call.out.sensors[SensorKey(i)].battery_percent
                     = AbsSigned8(BatteryByte(call.args, i)))

\* C22: for every raw battery byte the decoded battery percent lies in
\* 0..100, in parse_battery_level and in the battery entity.
C22_BatteryPercentInRange ==
    /\ (call.fn = "parse_battery_level")
          => (call.out \in 0..100)
    /\ (call.fn = "NeptunWirelessBatterySensor.native_value" /\ call.args.data # None)
          => (call.out[1] \in 0..100)

(***************************************************************************)
(* C23: the status of a sensor.                                            *)
(***************************************************************************)
\* the status the mapping gives a state byte
StatusOfByte(b) ==
    CASE b = 0 -> "Disconnected"
      [] b = 2 -> "Triggered"
      [] b = 3 -> "Normal"
      [] OTHER -> "Unknown"

\* the status a label of the decoder or of parse_sensor_state stands for
StatusOfLabel(label) ==
    CASE label.text = "disconnected" /\ label.digits = << >> -> "Disconnected"
      [] label.text = "triggered" /\ label.digits = << >>    -> "Triggered"
      [] label.text = "normal" /\ label.digits = << >>       -> "Normal"
      [] label.text = "unknown" /\ label.digits = << >>      -> "Unknown"
      [] label.text = "unknown_" /\ Len(label.digits) = 2    -> "Unknown"
      [] OTHER -> "no status"

\* the byte of the response `data` that holds the state of sensor i
StateByte(data, i) == At(data, 51 + 4 * (i - 1))

\* C23: every state byte maps to exactly one of the four statuses, 0x00 to
\* Disconnected, 0x02 to Triggered, 0x03 to Normal and every other byte to
\* Unknown, in the decoder, in parse_sensor_state and in the state entity.
C23_StatusMappingTotal ==
    /\ (call.fn = "parse_sensor_state")
          => (StatusOfLabel(call.out) = StatusOfByte(call.args))
    /\ (call.fn = "_parse_system_state")
          => (\A i \in 1..3 :
                 StatusOfLabel(str(call.out.sensors[SensorKey(i)].state, << >>))
                     = StatusOfByte(StateByte(call.args, i)))
    /\ (call.fn = "NeptunWirelessSensorSensor.native_value" /\ call.args.data # None)
          => (call.out = Some(StatusOfByte(
                  call.args.data.system_state[SensorStateKey(call.args.sensor_number)])))

\* parse_sensor_state was given a byte that is none of 0x00, 0x02, 0x03 and
\* answered with an unknown label.
C23_Witness ==
    /\ call.fn = "parse_sensor_state"
    /\ call.args = 255
    /\ call.out.text = "unknown_"

(***************************************************************************)
(* C24.  set_line_mode(line, counter_mode), line in 1..8, sends exactly    *)
(* one 0x57 frame: its line-configuration byte is 1 << (line - 1) when     *)
(* counter_mode is true and 0 when it is false, its valve, dry_mode and    *)
(* auto_close bytes are those of the state fetched at the start; no state  *)
(* query follows the frame, and the operation returns a boolean.  As a     *)
(* property of behaviours of the lone caller: a set_line_mode that has     *)
(* started gets its control frame on the wire, the frame on the wire is as *)
(* described, and at the return the operation has sent 0x52 and then 0x57  *)
(* and nothing else.                                                       *)
(***************************************************************************)
LineConfigByte(command) == At(command, 12)

LineModeStarted ==
    /\ stack[Caller] = <<"set_line_mode">>
    /\ pc[Caller] = "acquire"
    /\ arg[Caller].line \in 1..8

LineModeFrameOnWire ==
    /\ stack[Caller] = <<"set_line_mode">>
    /\ pc[Caller] = "io"

LineModeFrameAsDescribed ==
    LET command == loop[Caller].command
    IN  /\ hist[Caller].oplog = <<PACKET_SYSTEM_STATE, PACKET_SET_SYSTEM_STATE>>
        /\ command = create_control_command(
                         Get(system_state, "valve_open", TRUE),
                         Get(system_state, "dry_mode", FALSE),
                         Get(system_state, "auto_close", FALSE),
                         LineConfigByte(command))
        /\ LineConfigByte(command)
              = IF arg[Caller].flag THEN ShiftLeft1(arg[Caller].line - 1) ELSE 0

LineModeReturned ==
    /\ stack[Caller] = <<"set_line_mode">>
    /\ pc[Caller] = "done"
    /\ arg[Caller].line \in 1..8

C24_LineModeSendsOneControlFrame ==
    /\ [](LineModeFrameOnWire => LineModeFrameAsDescribed)
    /\ [](LineModeReturned =>
            /\ hist[Caller].oplog = <<PACKET_SYSTEM_STATE, PACKET_SET_SYSTEM_STATE>>
            /\ result[Caller] \in {Some(TRUE), Some(FALSE)})
    /\ (LineModeStarted ~> LineModeFrameOnWire)

(***************************************************************************)
(* C25.  set_counter_value(line, value), line in 1..8 and value a 32-bit   *)
(* unsigned number, makes two round trips in a fixed order: the line-mode  *)
(* frame 0x57 first, the counter frame 0x58 (payload 53 00 04 line 00 00   *)
(* 00 and the value as 4 little-endian bytes) only after it; it returns a  *)
(* boolean, and no frame follows the 0x58 frame (no rollback).  As a       *)
(* property of behaviours of the lone caller: a set_counter_value that has *)
(* started gets its 0x58 frame on the wire, after 0x52 and 0x57 and        *)
(* nothing else, with the payload described.                               *)
(***************************************************************************)
CounterValueStarted ==
    /\ stack[Caller] = <<"set_counter_value">>
    /\ pc[Caller] = "acquire"
    /\ arg[Caller].line \in 1..8
    /\ arg[Caller].value >= 0

CounterFrameOnWire ==
    /\ stack[Caller] = <<"set_counter_value">>
    /\ pc[Caller] = "io"

CounterRoundTrips ==
    <<PACKET_SYSTEM_STATE, PACKET_SET_SYSTEM_STATE, PACKET_SET_COUNTER_VALUE>>

C25_CounterValueTwoRoundTrips ==
    /\ [](CounterFrameOnWire =>
            /\ hist[Caller].oplog = CounterRoundTrips
            /\ SubSeq(loop[Caller].command, 7, 17)
                  = <<83, 0, 4, arg[Caller].line, 0, 0, 0>>
                        \o to_bytes_little4(arg[Caller].value))
    /\ []((stack[Caller] = <<"set_counter_value">> /\ pc[Caller] = "done"
              /\ arg[Caller].line \in 1..8 /\ arg[Caller].value >= 0) =>
            /\ hist[Caller].oplog = CounterRoundTrips
            /\ result[Caller] \in {Some(TRUE), Some(FALSE)})
    /\ (CounterValueStarted ~> CounterFrameOnWire)

(***************************************************************************)
(* C26.  For every combination of the three booleans and every             *)
(* line_config byte, create_control_command returns the frame with command *)
(* code 0x57, length 7 and payload 53 00 04 v d a c, v, d, a being 1 for a *)
(* true valve_open, dry_mode, auto_close and 0 otherwise and c the         *)
(* line_config byte.  Another combination of the flags gives another       *)
(* frame, and before the CRC the two differ in the bytes of the flags that *)
(* differ and nowhere else.                                                *)
(***************************************************************************)
FlagCombinations == [valve : BOOLEAN, dry : BOOLEAN, auto : BOOLEAN]

C26_ControlFrameLayout ==
    call.fn = "create_control_command" =>
        LET a     == call.args
            frame == call.out
        IN  /\ Len(frame) = 15
            /\ SubSeq(frame, 1, 6) = <<2, 84, 81, 87, 0, 7>>
            /\ SubSeq(frame, 7, 13)
                  = <<83, 0, 4, BoolByte(a.valve_state_open), BoolByte(a.flag_dry),
                      BoolByte(a.flag_cl_valve), a.line_in_config>>
            /\ SubSeq(frame, 14, 15) = crc16(SubSeq(frame, 1, 13))
            /\ \A f \in FlagCombinations :
                  LET other == create_control_command(f.valve, f.dry, f.auto,
                                                      a.line_in_config)
                  IN  /\ (other = frame) <=>
                            (f = [valve |-> a.valve_state_open, dry |-> a.flag_dry,
                                  auto |-> a.flag_cl_valve])
                      /\ \A k \in 1..13 :
                            (other[k] # frame[k]) <=>
                               \/ k = 10 /\ f.valve # a.valve_state_open
                               \/ k = 11 /\ f.dry # a.flag_dry
                               \/ k = 12 /\ f.auto # a.flag_cl_valve

\* valve open, dry mode off, auto-close on, line 8 in counter mode
C26_Witness ==
    /\ call.fn = "create_control_command"
    /\ call.args = [valve_state_open |-> TRUE, flag_dry |-> FALSE,
                    flag_cl_valve |-> TRUE, line_in_config |-> 128]
    /\ SubSeq(call.out, 10, 13) = <<1, 0, 1, 128>>

(***************************************************************************)
(* C27.  The decoded state of a response of at least 112 bytes follows the *)
(* offset table: valve_open iff byte 41 is 1, dry_mode iff byte 46 is      *)
(* 0x0F, auto_close iff byte 47 is 0x08; state, index, battery and         *)
(* signal/flag of sensor i are bytes 51 + 4(i-1), 52 + 4(i-1), 53 + 4(i-1) *)
(* and 54 + 4(i-1), which are also the positions the tables of             *)
(* sensor_mapping.py give; the data of counter k is byte 65 + k.  No other *)
(* byte has a part in it: changing a byte that is not in the table leaves  *)
(* everything the decoder stores as it is.                                 *)
(***************************************************************************)
TableOffsets ==
    {41, 46, 47} \cup { 50 + 4 * (i - 1) + j : i \in 1..3, j \in 1..4 }
        \cup { 65 + k : k \in 1..3 }

SensorField(ss, i, field) ==
    ss[ << <<"sensor_1_state", "sensor_1_index", "sensor_1_battery", "sensor_1_signal",
              "sensor_1_flag">>,
           <<"sensor_2_state", "sensor_2_index", "sensor_2_battery", "sensor_2_signal",
              "sensor_2_flag">>,
           <<"sensor_3_state", "sensor_3_index", "sensor_3_battery", "sensor_3_signal",
              "sensor_3_flag">> >>[i][field] ]

C27_DecodeOffsetTable ==
    (call.fn = "_parse_system_state" /\ Len(call.args) >= 112) =>
        LET data == call.args
            ss   == call.out.system_state
        IN  /\ ss.valve_open = (At(data, 41) = 1)
            /\ ss.dry_mode = (At(data, 46) = 15)
            /\ ss.auto_close = (At(data, 47) = 8)
            /\ \A i \in 1..3 :
                  /\ SensorField(ss, i, 1) = At(data, 51 + 4 * (i - 1))
                  /\ SensorField(ss, i, 2) = At(data, 52 + 4 * (i - 1))
                  /\ SensorField(ss, i, 3) = At(data, 53 + 4 * (i - 1))
                  /\ SensorField(ss, i, 4) = At(data, 54 + 4 * (i - 1))
                  /\ SensorField(ss, i, 5) = At(data, 54 + 4 * (i - 1))
            /\ \A k \in 1..3 : ss[CounterDataKey(k)] = At(data, 65 + k)
            /\ \A i \in 1..3 :
                  /\ SENSOR_STATE_POSITIONS[i] = 51 + SENSOR_INTERVAL * (i - 1)
                  /\ SENSOR_INDEX_POSITIONS[i] = 52 + SENSOR_INTERVAL * (i - 1)
                  /\ SENSOR_BATTERY_POSITIONS[i] = 53 + SENSOR_INTERVAL * (i - 1)
                  /\ SENSOR_SIGNAL_POSITIONS[i] = 54 + SENSOR_INTERVAL * (i - 1)
                  /\ SensorField(ss, i, 1) = At(data, SENSOR_STATE_POSITIONS[i])
                  /\ SensorField(ss, i, 3) = At(data, SENSOR_BATTERY_POSITIONS[i])
            /\ \A offset \in (0..(Len(data) - 1)) \ TableOffsets :
                  \A value \in {1, (At(data, offset) + 1) % 256} :
                      _parse_system_state(EmptyCache, WithByte(data, offset, value), 0)
                          = call.out

\* a response of more than 112 bytes with the valve open
C27_Witness ==
    /\ call.fn = "_parse_system_state"
    /\ Len(call.args) > 112
    /\ At(call.args, 41) = 1
    /\ call.out.system_state.valve_open
    /\ call.out.system_state.sensor_2_battery = 57
    /\ call.out.sensors["sensor_2"].battery_percent = 57

(***************************************************************************)
(* C28.  Within one call of send_command_with_retries every attempt sends  *)
(* the same frame as the first, on a connection of its own, and at most    *)
(* one connection opened by the call is open at any instant.               *)
(***************************************************************************)
C28_FreshAttemptSameFrame ==
    (stack[Caller] = <<"send_command_with_retries">>) =>
        LET h == hist[Caller]
        IN  /\ \A i \in 1..Len(h.frames) : h.frames[i] = h.frames[1]
            /\ Len(h.frames) <= h.attempts
            /\ h.peak <= 1

(***************************************************************************)
(* C29.  The frame a literal-frame setter sends has the two flags that are *)
(* not its target at 0, whatever the cache holds; disabling a flag sends   *)
(* one and the same all-off frame from each of the three setters; so no    *)
(* frame these setters send has dry_mode = 1 and auto_close = 1 together.  *)
(***************************************************************************)
C29_LiteralSettersResetOtherFlags ==
    \A t \in Tasks :
        (pc[t] \in {"io", "sleep"} /\ Top(stack[t]) \in LiteralSetters) =>
            LET fn      == Top(stack[t])
                command == loop[t].command
                flags   == <<ValveByte(command), DryByte(command), AutoByte(command)>>
            IN  /\ (fn = "set_valve_state") => (flags = <<BoolByte(arg[t].flag), 0, 0>>)
                /\ (fn = "set_dry_mode") => (flags = <<0, BoolByte(arg[t].flag), 0>>)
                /\ (fn = "set_auto_close") => (flags = <<0, 0, BoolByte(arg[t].flag)>>)
                /\ (~arg[t].flag) => (command = fromhex(HexAllOff))
                /\ ~(DryByte(command) = 1 /\ AutoByte(command) = 1)

\* set_auto_close(True) has its frame on the wire while the cache says dry
\* mode is on: the frame says dry mode off
C29_Witness ==
    \E t \in Tasks :
        /\ Sending(t, "set_auto_close")
        /\ arg[t].flag
        /\ Get(system_state, "dry_mode", FALSE)
        /\ DryByte(loop[t].command) = 0
        /\ AutoByte(loop[t].command) = 1

(***************************************************************************)
(* C30.  The events of set_valve_state come in the order state query,      *)
(* control frame, settle delay, confirming state query: the command        *)
(* sequences of the operation are 0x52, then 0x57, then (after the delay)  *)
(* 0x52, and an operation that returns before the confirming query returns *)
(* false.                                                                  *)
(***************************************************************************)
IsPrefix(p, q) == Len(p) <= Len(q) /\ SubSeq(q, 1, Len(p)) = p

C30_ValveEventOrder ==
    \A t \in Tasks :
        (stack[t] # << >> /\ stack[t][1] = "set_valve_state") =>
            /\ IsPrefix(hist[t].oplog,
                        <<PACKET_SYSTEM_STATE, PACKET_SET_SYSTEM_STATE,
                          PACKET_SYSTEM_STATE>>)
            /\ (pc[t] = "done" /\ Len(hist[t].oplog) < 3) => (result[t] = Some(FALSE))

(***************************************************************************)
(* C31.  After a poll that fails while the last successful update is       *)
(* younger than the staleness window the device is still reported          *)
(* available; it is reported unavailable only once last_update is older    *)
(* than the window, or was never set.                                      *)
(***************************************************************************)
\* the device was updated less than the staleness window before t
Fresh(lu, t) == lu # None /\ t - lu[1] < ONLINE_SECONDS

C31_AvailableThroughStalenessWindow ==
    (call.fn = "_async_update_data" /\ call.out.outcome = "UpdateFailed") =>
        (call.out.available <=> Fresh(call.args.last_update, call.args.now))

(***************************************************************************)
(* C32.  Whenever _async_update_data returns normally, `available` is true *)
(* right afterwards (the poll left the device with a last_update), and     *)
(* whenever it raises UpdateFailed, `available` is false.  The poll ends   *)
(* in the step in which update_all returns, so the property is one of the  *)
(* states in which update_all has returned.                                *)
(***************************************************************************)
C32_SuccessfulPollIsAvailable ==
    \A t \in Tasks :
        (pc[t] = "done" /\ stack[t] = <<"update_all">>) =>
            \A _available \in BOOLEAN :
                LET end == _async_update_data_end(result[t][1], _available)
                IN  /\ (end.outcome = "returned")
                          => available(end._available, last_update, now)
                    /\ (end.outcome = "UpdateFailed")
                          => ~available(end._available, last_update, now)

(***************************************************************************)
(* C33.  update_all sends the device-info query only after the state query *)
(* of the same call has succeeded, gives up the device lock between the    *)
(* two (it waits for the lock again, which is free at that moment, so that *)
(* another operation may take it first), and returns the result of the     *)
(* state query whatever the device-info query does.                        *)
(***************************************************************************)
\* the response the state query of task t's operation got is one
\* get_system_state answers with True
StateQuerySucceeded(t) ==
    /\ answer[t] # None
    /\ Truthy(answer[t][1])
    /\ IsSuccess(answer[t][1])

C33_UpdateAllOrder ==
    [][\A t \in Tasks :
          /\ (stack'[t] = <<"update_all", "get_device_info">> /\ stack[t] # stack'[t]) =>
                /\ stack[t] = <<"update_all", "get_system_state">>
                /\ StateQuerySucceeded(t)'
                /\ pc'[t] = "acquire"
                /\ ~locked'
          /\ (stack'[t] = <<"update_all", "get_device_info">> /\ pc'[t] = "io") =>
                hist'[t].oplog = <<PACKET_SYSTEM_STATE, PACKET_DEVICE_INFO>>
          /\ OperationReturns(t, "update_all") =>
                /\ result'[t] = Some(StateQuerySucceeded(t)')
                /\ (stack[t] = <<"update_all", "get_system_state">>)
                      => (result'[t] = Some(FALSE))]_vars

\* update_all is between its two queries, waiting for the lock that another
\* task took after the state query gave it up
C33_Witness ==
    \E t, u \in Tasks :
        /\ t # u
        /\ stack[t] = <<"update_all", "get_device_info">>
        /\ pc[t] = "acquire"
        /\ locked
        /\ InSequence(u)

(***************************************************************************)
(* C34.  last_update is written only by the decode of a response of at     *)
(* least 112 bytes that was classified Success, and then with the time of  *)
(* the decode; once set it is never unset and never decreases; a step of   *)
(* get_device_info or of a setter leaves it as it is.                      *)
(***************************************************************************)
\* This step is the return of a state query whose response was decoded.
DecodeStep ==
    \E t \in Tasks :
        /\ RefreshReturns(t)
        /\ answer'[t] # None
        /\ answer'[t][1] # NoResponse
        /\ IsSuccess(answer'[t][1])
        /\ Len(answer'[t][1]) >= MIN_STATE_LENGTH

\* Task t is in get_device_info or in a set_* operation.
InInfoOrSetter(t) ==
    /\ stack[t] # << >>
    /\ \/ Top(stack[t]) = "get_device_info"
       \/ Top(stack[t]) \in LiteralSetters \cup {"set_line_mode", "set_counter_value"}

C34_LastUpdateWrittenByDecodeOnly ==
    [][/\ (last_update' # last_update) => (DecodeStep /\ last_update' = Some(now))
       /\ (last_update # None) =>
             (last_update' # None /\ last_update'[1] >= last_update[1])
       /\ \A t \in Tasks :
             (InInfoOrSetter(t) /\ TaskSteps(t)) => (last_update' = last_update)]_vars

\* the cache was decoded after time 0, and a get_device_info has succeeded
\* since without touching last_update (it stamps device_info instead)
C34_Witness ==
    /\ last_update # None
    /\ last_update[1] > 0
    /\ "last_update" \in DOMAIN device_info
    /\ device_info["last_update"] >= last_update[1]
    /\ \E t \in Tasks :
          /\ stack[t] = <<"get_device_info">>
          /\ pc[t] = "done"
          /\ result[t] = Some(TRUE)

(***************************************************************************)
(* C35.  Whenever the cache is non-empty, the derived tables agree with    *)
(* system_state: for each i in 1..3, sensors[sensor_i].state is the status *)
(* of system_state[sensor_i_state], sensors[sensor_i].flag equals          *)
(* system_state[sensor_i_flag], and counters[counter_i].data equals        *)
(* system_state[counter_i_data]; no setter breaks the agreement.           *)
(***************************************************************************)
\* sensors[sensor_i] agrees with system_state
SensorAgrees(i) ==
    /\ SensorKey(i) \in DOMAIN sensors
    /\ SensorStateKey(i) \in DOMAIN system_state
    /\ SensorFlagKey(i) \in DOMAIN system_state
    /\ StatusOfLabel(str(sensors[SensorKey(i)].state, << >>))
          = StatusOfByte(system_state[SensorStateKey(i)])
    /\ sensors[SensorKey(i)].flag = system_state[SensorFlagKey(i)]

\* counters[counter_i] agrees with system_state
CounterAgrees(i) ==
    /\ CounterKey(i) \in DOMAIN counters
    /\ CounterDataKey(i) \in DOMAIN system_state
    /\ counters[CounterKey(i)].data = system_state[CounterDataKey(i)]

C35_DerivedTablesAgree ==
    (system_state # EmptyDict) =>
        \A i \in 1..3 : SensorAgrees(i) /\ CounterAgrees(i)

\* a decoded cache, with a sensor whose flag and battery bytes differ, after
\* a setter has returned True
C35_Witness ==
    /\ system_state # EmptyDict
    /\ \A i \in 1..3 : SensorAgrees(i) /\ CounterAgrees(i)
    /\ \E i \in 1..3 :
          /\ sensors[SensorKey(i)].state = "normal"
          /\ sensors[SensorKey(i)].flag = 1
          /\ sensors[SensorKey(i)].battery_percent # 1
    /\ \E t \in Tasks :
          /\ pc[t] = "done"
          /\ stack[t] # << >>
          /\ stack[t][1] \in LiteralSetters
          /\ result[t] = Some(TRUE)

(***************************************************************************)
(* C36.  In the user config flow, whenever the device answers the state    *)
(* query so that get_system_state returns True, validate_input returns the *)
(* entry data (title, device_info, host, port) and async_step_user creates *)
(* the config entry; the flow reports an error only when the state query   *)
(* fails.                                                                  *)
(***************************************************************************)
\* get_system_state returns True for this response
StateQueryTrue(response) == get_system_state_tail(EmptyCache, response, 0).val

C36_FlowCreatesEntryOnSuccess ==
    /\ (call.fn = "validate_input" /\ StateQueryTrue(call.args.response))
          => /\ call.out.raised = None
             /\ call.out.value # None
             /\ call.out.value[1].host = call.args.data.host
             /\ call.out.value[1].port = call.args.data.port
    /\ (/\ call.fn = "async_step_user"
        /\ call.args.user_input # None
        /\ call.args.user_input[1].host \notin call.args.configured)
          => /\ StateQueryTrue(call.args.response) => (call.out.type = "create_entry")
             /\ (call.out.type = "form") => ~StateQueryTrue(call.args.response)

\* The flow never creates an entry, whatever the device answers.
C36_FlowNeverCreatesEntry ==
    (call.fn = "async_step_user") => (call.out.type # "create_entry")

=============================================================================
